---- MODULE Spec2Model ----
(***************************************************************************)
(* PurrPal chatbot request pipeline: input validation, rate limiting,      *)
(* urgency classification, response cache, timeout-bounded model call,     *)
(* conversation store and metrics, as implemented by the utility classes   *)
(* and the PurrPalChatbot orchestrator.                                    *)
(*                                                                         *)
(* Texts are sequences of one-character strings, so that trimming,         *)
(* whitespace collapsing, lower-casing and substring search are computed   *)
(* as the code computes them.  The token "\\x01" stands for the single     *)
(* control character U+0001.  Times are milliseconds since the epoch; the  *)
(* clock advances in steps of one minute.                                  *)
(***************************************************************************)
EXTENDS Integers, Sequences, FiniteSets, TLC

-----------------------------------------------------------------------------
(* Bounds of the model                                                     *)

\* the clock runs from minute 1 to minute MaxTime
MaxTime == 3
\* number of generateResponse / generateStreamingResponse calls explored
MaxCalls == 2
\* number of text chunks a model stream emits at most
MaxChunks == 1
\* number of requests suspended in a model call at the same time
MaxInflight == 2
\* number of initialize() calls awaiting their connectivity probe at once
MaxProbes == 1
\* generateResponse calls made in a rate-limit run
MaxRateCalls == 4
\* number of items with text a stream emits in a streaming run
MaxStreamChunks == 3
\* recordRequest calls made between two resets when the collector is driven
\* directly
MaxRecords == 3
\* length of the longest text passed to validateInput directly
MaxTextLen == 4
\* number of entries the cache already holds when it is driven directly
Prefilled == 999

-----------------------------------------------------------------------------
(* Configuration (environment-supplied values of the config object)        *)

\* config.cache.enabled
cacheEnabled == TRUE
\* config.cache.ttlMinutes
ttlMinutes == 1
\* config.rateLimit.requests
maxRequests == 2
\* config.rateLimit.windowMinutes
windowMinutes == 2
\* config.security.maxInputLength
maxInputLength == 2000
\* config.security.blockSuspiciousContent
blockSuspiciousContent == TRUE
\* config.logging.enableMetrics
enableMetrics == TRUE
\* config.catCare.responseTimeout (ms)
responseTimeout == 30000
\* the factor "* 60 * 1000" that turns configured minutes into milliseconds
MinuteMs == 60 * 1000
\* CacheManager.set: the size above which a cleanup pass runs
cacheSoftCap == 1000

\* config.catCare.emergencyKeywords
emergencyKeywords ==
  << <<"t","i","d","a","k"," ","b","e","r","n","a","p","a","s">>,
     <<"k","e","j","a","n","g">>,
     <<"p","i","n","g","s","a","n">>,
     <<"d","a","r","a","h">>,
     <<"k","e","r","a","c","u","n","a","n">>,
     <<"t","i","d","a","k"," ","s","a","d","a","r">>,
     <<"m","u","n","t","a","h"," ","d","a","r","a","h">>,
     <<"d","i","a","r","e"," ","b","e","r","d","a","r","a","h">>,
     <<"l","e","m","a","s"," ","s","e","k","a","l","i">>,
     <<"e","m","e","r","g","e","n","c","y">>,
     <<"u","r","g","e","n","t">>,
     <<"g","a","w","a","t"," ","d","a","r","u","r","a","t">> >>

\* config.catCare.seriousSymptoms
seriousSymptoms ==
  << <<"t","i","d","a","k"," ","m","a","u"," ","m","a","k","a","n">>,
     <<"t","i","d","a","k"," ","m","i","n","u","m">>,
     <<"d","e","m","a","m"," ","t","i","n","g","g","i">>,
     <<"s","e","s","a","k"," ","n","a","p","a","s">>,
     <<"m","u","n","t","a","h"," ","t","e","r","u","s">>,
     <<"d","i","a","r","e"," ","p","a","r","a","h">>,
     <<"b","e","n","g","k","a","k">>,
     <<"l","u","k","a"," ","p","a","r","a","h">> >>

\* InputValidator.validateInput: the patterns /script/i ... /window\\./i, as the texts they search for
suspiciousPatterns ==
  << <<"s","c","r","i","p","t">>,
     <<"j","a","v","a","s","c","r","i","p","t">>,
     <<"v","b","s","c","r","i","p","t">>,
     <<"o","n","l","o","a","d">>,
     <<"o","n","e","r","r","o","r">>,
     <<"a","l","e","r","t","(">>,
     <<"d","o","c","u","m","e","n","t",".">>,
     <<"w","i","n","d","o","w",".">> >>

\* String.prototype.toLowerCase on one character
LowerOf ==
  ("A" :> "a") @@
  ("B" :> "b") @@
  ("C" :> "c") @@
  ("D" :> "d") @@
  ("E" :> "e") @@
  ("F" :> "f") @@
  ("G" :> "g") @@
  ("H" :> "h") @@
  ("I" :> "i") @@
  ("J" :> "j") @@
  ("K" :> "k") @@
  ("L" :> "l") @@
  ("M" :> "m") @@
  ("N" :> "n") @@
  ("O" :> "o") @@
  ("P" :> "p") @@
  ("Q" :> "q") @@
  ("R" :> "r") @@
  ("S" :> "s") @@
  ("T" :> "t") @@
  ("U" :> "u") @@
  ("V" :> "v") @@
  ("W" :> "w") @@
  ("X" :> "x") @@
  ("Y" :> "y") @@
  ("Z" :> "z")

-----------------------------------------------------------------------------
(* Texts                                                                   *)

\* the characters matched by \s in the regular expressions of the code
Whitespace == {" ", "\t", "\n", "\r", "\f"}
\* the character class [<>\"'%;()&+] removed by sanitizeInput
XssChars == {"<", ">", "\"", "'", "%", ";", "(", ")", "&", "+"}
\* the character class [\x00-\x08\x0B\x0C\x0E-\x1F\x7F] removed by sanitizeInput
ControlChars == {"\\x01", "\f"}

Lower(c) == IF c \in DOMAIN LowerOf THEN LowerOf[c] ELSE c
toLowerCase(s) == [i \in 1..Len(s) |-> Lower(s[i])]

\* String.prototype.includes
includes(s, kw) ==
  \E i \in 1..(Len(s) - Len(kw) + 1) : SubSeq(s, i, i + Len(kw) - 1) = kw

\* Array.prototype.some over a list of texts
some(list, s) == \E j \in 1..Len(list) : includes(s, list[j])

\* String.prototype.trim
trim(s) ==
  LET solid == {i \in 1..Len(s) : s[i] \notin Whitespace}
  IN  IF solid = {} THEN <<>>
      ELSE LET lo == CHOOSE i \in solid : \A j \in solid : i <= j
               hi == CHOOSE i \in solid : \A j \in solid : i >= j
           IN  SubSeq(s, lo, hi)

\* .replace(/\s+/g, ' '): every maximal run of whitespace becomes one space
RECURSIVE collapseFrom(_, _)
collapseFrom(s, i) ==
  IF i > Len(s) THEN <<>>
  ELSE IF s[i] \in Whitespace
       THEN IF i > 1 /\ s[i-1] \in Whitespace
            THEN collapseFrom(s, i + 1)
            ELSE <<" ">> \o collapseFrom(s, i + 1)
       ELSE <<s[i]>> \o collapseFrom(s, i + 1)
collapseWhitespace(s) == collapseFrom(s, 1)

\* .replace(/[class]/g, ''): remove every character of the class
removeChars(s, class) == SelectSeq(s, LAMBDA c : c \notin class)

-----------------------------------------------------------------------------
(* Request inputs: a JavaScript value passed as userMessage.  type is the  *)
(* typeof of the value ("null" for null/undefined), text its characters    *)
(* (String(value) for a non-string).                                       *)

Str(s) == [type |-> "string", text |-> s]
NullInput == [type |-> "null", text |-> <<"n","u","l","l">>]
NumberInput == [type |-> "number", text |-> <<"1","2","3">>]

\* JavaScript truthiness of an input value
Truthy(input) ==
  \/ input.type = "string" /\ Len(input.text) > 0
  \/ input.type = "number"

\* userMessage?.substring(0, 100) evaluates without a TypeError: the value
\* is null/undefined (the optional chain stops) or has a substring method
substringSafe(input) == input.type \in {"string", "null"}

-----------------------------------------------------------------------------
(* InputValidator                                                          *)

sanitizeInput(input) ==
  IF input.type # "string" THEN <<>>
  ELSE LET cut == IF Len(input.text) > maxInputLength
                  THEN SubSeq(input.text, 1, maxInputLength)
                  ELSE input.text
       IN  removeChars(collapseWhitespace(removeChars(trim(cut), XssChars)),
                       ControlChars)

ErrNotText == "Input harus berupa teks"
ErrTooShort == "Pertanyaan terlalu pendek, minimal 3 karakter"
ErrTooLong == "Pertanyaan terlalu panjang, maksimal 2000 karakter"
ErrSuspicious == "Input mengandung konten yang tidak diizinkan"

validateInput(input) ==
  LET e1 == IF ~Truthy(input) \/ input.type # "string"
            THEN <<ErrNotText>> ELSE <<>>
      e2 == IF Truthy(input) /\ input.type = "string" /\ Len(input.text) < 3
            THEN <<ErrTooShort>> ELSE <<>>
      e3 == IF Truthy(input) /\ input.type = "string"
               /\ Len(input.text) > maxInputLength
            THEN <<ErrTooLong>> ELSE <<>>
      e4 == IF blockSuspiciousContent
               /\ some(suspiciousPatterns, toLowerCase(input.text))
            THEN <<ErrSuspicious>> ELSE <<>>
      errors == e1 \o e2 \o e3 \o e4
  IN  [isValid |-> errors = <<>>,
       errors |-> errors,
       sanitizedInput |-> IF errors = <<>> THEN sanitizeInput(input) ELSE <<>>]

-----------------------------------------------------------------------------
(* Urgency classification and prompts                                      *)

\* the classification computed in generateResponse, generateStreamingResponse
\* and, again, inside createCatCarePrompt
detectUrgency(message) ==
  IF some(emergencyKeywords, toLowerCase(message)) THEN "emergency"
  ELSE IF some(seriousSymptoms, toLowerCase(message)) THEN "serious"
  ELSE "normal"

\* the prompt is kept as its variable parts: which template, which urgency
\* block the template carries, and the texts substituted into it
createCatCarePrompt(userMessage) ==
  [template |-> "catCare",
   urgencyInstruction |-> detectUrgency(userMessage),
   context |-> <<>>,
   message |-> userMessage]

createFollowUpPrompt(previousContext, newMessage) ==
  [template |-> "followUp",
   urgencyInstruction |-> "none",
   context |-> previousContext,
   message |-> newMessage]

-----------------------------------------------------------------------------
(* CacheManager                                                            *)

\* The MD5 digest is injective on the texts of the model, so a key is the
\* normalised text itself.
generateCacheKey(input) == collapseWhitespace(trim(toLowerCase(input)))

ttlMs == ttlMinutes * MinuteMs

\* a Map without the entry of key k
MapDelete(m, k) == [x \in (DOMAIN m) \ {k} |-> m[x]]
\* Map.prototype.set
MapSet(m, k, v) == [x \in (DOMAIN m) \cup {k} |-> IF x = k THEN v ELSE m[x]]
EmptyMap == [x \in {} |-> 0]

Absent == [absent |-> TRUE]

\* Expired with the boundary on the wrong side: an entry exactly ttlMs old
\* already counts as expired
ExpiredAtTtl(now, timestamp) == now - timestamp >= ttlMs

\* the comparison that decides that an entry stored at timestamp has expired
Expired(now, timestamp) == now - timestamp > ttlMs

\* CacheManager.get: the value returned and the two maps after the call
CacheGet(c, ct, key, now) ==
  IF ~cacheEnabled THEN [value |-> Absent, cache |-> c, cacheTimestamps |-> ct]
  ELSE IF key \notin DOMAIN ct
       THEN [value |-> Absent, cache |-> c, cacheTimestamps |-> ct]
  ELSE IF Expired(now, ct[key])
       THEN [value |-> Absent,
             cache |-> MapDelete(c, key),
             cacheTimestamps |-> MapDelete(ct, key)]
  ELSE IF key \in DOMAIN c
       THEN [value |-> c[key], cache |-> c, cacheTimestamps |-> ct]
  ELSE [value |-> Absent, cache |-> c, cacheTimestamps |-> ct]

\* cleanupKeep of a sweep that keeps only what was stored at this moment
cleanupKeepNewest(ct, now) == {k \in DOMAIN ct : ct[k] = now}

\* CacheManager.cleanup: the keys that survive a sweep at time now
cleanupKeep(ct, now) == {k \in DOMAIN ct : ~Expired(now, ct[k])}

\* CacheSet that keeps the timestamp of an entry it overwrites
CacheSetKeepsTimestamp(c, ct, key, value, now) ==
  IF ~cacheEnabled THEN [cache |-> c, cacheTimestamps |-> ct]
  ELSE LET c1 == MapSet(c, key, value)
           ct1 == IF key \in DOMAIN ct THEN ct ELSE MapSet(ct, key, now)
       IN  IF Cardinality(DOMAIN c1) > cacheSoftCap
           THEN [cache |-> [k \in (DOMAIN c1) \ ((DOMAIN ct1) \ cleanupKeep(ct1, now)) |-> c1[k]],
                 cacheTimestamps |-> [k \in cleanupKeep(ct1, now) |-> ct1[k]]]
           ELSE [cache |-> c1, cacheTimestamps |-> ct1]

\* CacheManager.set, with the cleanup pass it triggers above the soft cap
CacheSet(c, ct, key, value, now) ==
  IF ~cacheEnabled THEN [cache |-> c, cacheTimestamps |-> ct]
  ELSE LET c1 == MapSet(c, key, value)
           ct1 == MapSet(ct, key, now)
       IN  IF Cardinality(DOMAIN c1) > cacheSoftCap
           THEN [cache |-> [k \in (DOMAIN c1) \ ((DOMAIN ct1) \ cleanupKeep(ct1, now)) |-> c1[k]],
                 cacheTimestamps |-> [k \in cleanupKeep(ct1, now) |-> ct1[k]]]
           ELSE [cache |-> c1, cacheTimestamps |-> ct1]

-----------------------------------------------------------------------------
(* RateLimiter                                                             *)

windowMs == windowMinutes * MinuteMs

\* requests.filter(timestamp => now - timestamp < windowMs)
validRequests(requests, now) ==
  SelectSeq(requests, LAMBDA timestamp : now - timestamp < windowMs)

\* checkRateLimit rejecting one request late: ">" where the code has ">="
checkRateLimitLate(store, identifier, now) ==
  LET requests == IF identifier \in DOMAIN store THEN store[identifier] ELSE <<>>
      valid == validRequests(requests, now)
  IN  IF Len(valid) > maxRequests
      THEN [allowed |-> FALSE,
            remaining |-> 0,
            resetTime |-> valid[1] + windowMs,
            store |-> MapSet(store, identifier, valid)]
      ELSE [allowed |-> TRUE,
            remaining |-> maxRequests - (Len(valid) + 1),
            resetTime |-> now + windowMs,
            store |-> MapSet(store, identifier, Append(valid, now))]

\* checkRateLimit without validRequests.push(now): an accepted check leaves
\* no timestamp behind
checkRateLimitNoPush(store, identifier, now) ==
  LET requests == IF identifier \in DOMAIN store THEN store[identifier] ELSE <<>>
      valid == validRequests(requests, now)
  IN  IF Len(valid) >= maxRequests
      THEN [allowed |-> FALSE,
            remaining |-> 0,
            resetTime |-> valid[1] + windowMs,
            store |-> MapSet(store, identifier, valid)]
      ELSE [allowed |-> TRUE,
            remaining |-> maxRequests - (Len(valid) + 1),
            resetTime |-> now + windowMs,
            store |-> MapSet(store, identifier, valid)]

\* checkRateLimit computing remaining before validRequests.push(now)
checkRateLimitRemainingEarly(store, identifier, now) ==
  LET requests == IF identifier \in DOMAIN store THEN store[identifier] ELSE <<>>
      valid == validRequests(requests, now)
  IN  IF Len(valid) >= maxRequests
      THEN [allowed |-> FALSE,
            remaining |-> 0,
            resetTime |-> valid[1] + windowMs,
            store |-> MapSet(store, identifier, valid)]
      ELSE [allowed |-> TRUE,
            remaining |-> maxRequests - Len(valid),
            resetTime |-> now + windowMs,
            store |-> MapSet(store, identifier, Append(valid, now))]

\* checkRateLimit with a rejection's resetTime counted from the rejection
checkRateLimitResetFromNow(store, identifier, now) ==
  LET requests == IF identifier \in DOMAIN store THEN store[identifier] ELSE <<>>
      valid == validRequests(requests, now)
  IN  IF Len(valid) >= maxRequests
      THEN [allowed |-> FALSE,
            remaining |-> 0,
            resetTime |-> now + windowMs,
            store |-> MapSet(store, identifier, valid)]
      ELSE [allowed |-> TRUE,
            remaining |-> maxRequests - (Len(valid) + 1),
            resetTime |-> now + windowMs,
            store |-> MapSet(store, identifier, Append(valid, now))]

\* checkRateLimit recording the rejected attempt too
checkRateLimitRecordsRejected(store, identifier, now) ==
  LET requests == IF identifier \in DOMAIN store THEN store[identifier] ELSE <<>>
      valid == validRequests(requests, now)
  IN  IF Len(valid) >= maxRequests
      THEN [allowed |-> FALSE,
            remaining |-> 0,
            resetTime |-> valid[1] + windowMs,
            store |-> MapSet(store, identifier, Append(valid, now))]
      ELSE [allowed |-> TRUE,
            remaining |-> maxRequests - (Len(valid) + 1),
            resetTime |-> now + windowMs,
            store |-> MapSet(store, identifier, Append(valid, now))]

\* checkRateLimit keeping a single window: the store it leaves holds the
\* timestamps of the checked identifier only
checkRateLimitDropsOthers(store, identifier, now) ==
  LET requests == IF identifier \in DOMAIN store THEN store[identifier] ELSE <<>>
      valid == validRequests(requests, now)
  IN  IF Len(valid) >= maxRequests
      THEN [allowed |-> FALSE,
            remaining |-> 0,
            resetTime |-> valid[1] + windowMs,
            store |-> MapSet(EmptyMap, identifier, valid)]
      ELSE [allowed |-> TRUE,
            remaining |-> maxRequests - (Len(valid) + 1),
            resetTime |-> now + windowMs,
            store |-> MapSet(EmptyMap, identifier, Append(valid, now))]

\* RateLimiter.checkRateLimit: the result and the store after the call
checkRateLimit(store, identifier, now) ==
  LET requests == IF identifier \in DOMAIN store THEN store[identifier] ELSE <<>>
      valid == validRequests(requests, now)
  IN  IF Len(valid) >= maxRequests
      THEN [allowed |-> FALSE,
            remaining |-> 0,
            resetTime |-> valid[1] + windowMs,
            store |-> MapSet(store, identifier, valid)]
      ELSE [allowed |-> TRUE,
            remaining |-> maxRequests - (Len(valid) + 1),
            resetTime |-> now + windowMs,
            store |-> MapSet(store, identifier, Append(valid, now))]

-----------------------------------------------------------------------------
(* ResponseFormatter                                                       *)

\* object spread {...r, ...s}
Merge(r, s) ==
  [f \in (DOMAIN r) \cup (DOMAIN s) |-> IF f \in DOMAIN s THEN s[f] ELSE r[f]]

EmergencyRecommendations ==
  << "Segera bawa kucing ke dokter hewan terdekat",
     "Jangan tunda penanganan medis",
     "Hubungi klinik hewan untuk konsultasi darurat" >>

SeriousRecommendations ==
  << "Konsultasikan dengan dokter hewan dalam 24-48 jam",
     "Monitor kondisi kucing secara berkala",
     "Catat perubahan gejala untuk dilaporkan ke dokter" >>

\* ResponseFormatter.formatResponse(response, {urgencyLevel, cached,
\* responseTime, ...}); the ISO timestamp of the envelope is left out
formatResponse(response, urgencyLevel, cached, responseTime) ==
  LET base == [success |-> TRUE, message |-> trim(response), source |-> "purrpal-ai",
               urgencyLevel |-> urgencyLevel]
      r1 == IF cached THEN Merge(base, [cached |-> TRUE]) ELSE base
      r2 == IF responseTime # 0 THEN Merge(r1, [responseTimeMs |-> responseTime]) ELSE r1
  IN  IF urgencyLevel = "emergency"
      THEN Merge(r2, [recommendations |-> EmergencyRecommendations])
      ELSE IF urgencyLevel = "serious"
           THEN Merge(r2, [recommendations |-> SeriousRecommendations])
           ELSE r2

GenericErrorMessage ==
  "Maaf, saya sedang mengalami gangguan teknis. Silakan coba lagi dalam beberapa saat atau hubungi dokter hewan jika ini adalah kondisi darurat."

\* ResponseFormatter.createErrorResponse(error, context): the error goes to
\* the logger only; errorId is a fresh UUID, kept as a fixed token
createErrorResponse(error) ==
  [success |-> FALSE,
   message |-> GenericErrorMessage,
   errorId |-> "uuid",
   suggestions |-> << "Coba ulangi pertanyaan Anda",
                      "Periksa koneksi internet Anda",
                      "Jika darurat, segera hubungi dokter hewan terdekat" >>]

-----------------------------------------------------------------------------
(* MetricsCollector                                                        *)
(* averageResponseTime is an IEEE double: a finite value is kept as a      *)
(* reduced fraction num/den, the other values by their kind.               *)

RECURSIVE Gcd(_, _)
Gcd(a, b) == IF b = 0 THEN a ELSE Gcd(b, a % b)
Abs(a) == IF a < 0 THEN 0 - a ELSE a

Fin(num, den) ==
  LET g == Gcd(Abs(num), den)
  IN  [kind |-> "finite", num |-> num \div g, den |-> den \div g]
NaN == [kind |-> "NaN", num |-> 0, den |-> 1]
Inf(sign) == [kind |-> "Infinity", num |-> sign, den |-> 1]

\* ((currentAvg * (totalSuccessful - 1)) + responseTime) / totalSuccessful
averageUpdate(currentAvg, totalSuccessful, responseTime) ==
  LET k == totalSuccessful - 1
      scaled == IF currentAvg.kind = "NaN" THEN NaN
                ELSE IF currentAvg.kind = "Infinity"
                     THEN IF k = 0 THEN NaN
                          ELSE IF k > 0 THEN currentAvg ELSE Inf(0 - currentAvg.num)
                     ELSE Fin(currentAvg.num * k, currentAvg.den)
      sum == IF scaled.kind = "finite"
             THEN Fin(scaled.num + responseTime * scaled.den, scaled.den)
             ELSE scaled
  IN  IF sum.kind # "finite" THEN sum
      ELSE IF totalSuccessful = 0
           THEN IF sum.num > 0 THEN Inf(1)
                ELSE IF sum.num < 0 THEN Inf(0 - 1) ELSE NaN
           ELSE Fin(sum.num, sum.den * totalSuccessful)

ZeroMetrics ==
  [totalRequests |-> 0, successfulRequests |-> 0, failedRequests |-> 0,
   cacheHits |-> 0, cacheMisses |-> 0, averageResponseTime |-> Fin(0, 1),
   emergencyDetections |-> 0, seriousConditionDetections |-> 0]

\* recordRequest counting a cache miss only for successful calls
recordRequestMissOnSuccess(m, success, responseTime, cached, urgencyLevel) ==
  IF ~enableMetrics THEN m
  ELSE LET successful == m.successfulRequests + (IF success THEN 1 ELSE 0)
       IN  [totalRequests |-> m.totalRequests + 1,
            successfulRequests |-> successful,
            failedRequests |-> m.failedRequests + (IF success THEN 0 ELSE 1),
            cacheHits |-> m.cacheHits + (IF cached THEN 1 ELSE 0),
            cacheMisses |-> m.cacheMisses + (IF ~cached /\ success THEN 1 ELSE 0),
            averageResponseTime |->
              averageUpdate(m.averageResponseTime, successful, responseTime),
            emergencyDetections |->
              m.emergencyDetections + (IF urgencyLevel = "emergency" THEN 1 ELSE 0),
            seriousConditionDetections |->
              m.seriousConditionDetections + (IF urgencyLevel = "serious" THEN 1 ELSE 0)]

\* MetricsCollector.recordRequest
recordRequest(m, success, responseTime, cached, urgencyLevel) ==
  IF ~enableMetrics THEN m
  ELSE LET successful == m.successfulRequests + (IF success THEN 1 ELSE 0)
       IN  [totalRequests |-> m.totalRequests + 1,
            successfulRequests |-> successful,
            failedRequests |-> m.failedRequests + (IF success THEN 0 ELSE 1),
            cacheHits |-> m.cacheHits + (IF cached THEN 1 ELSE 0),
            cacheMisses |-> m.cacheMisses + (IF cached THEN 0 ELSE 1),
            averageResponseTime |->
              averageUpdate(m.averageResponseTime, successful, responseTime),
            emergencyDetections |->
              m.emergencyDetections + (IF urgencyLevel = "emergency" THEN 1 ELSE 0),
            seriousConditionDetections |->
              m.seriousConditionDetections + (IF urgencyLevel = "serious" THEN 1 ELSE 0)]

-----------------------------------------------------------------------------
(* Inputs explored                                                         *)

\* "tidak sadar": an emergency keyword
MsgEmergency == Str(<<"t","i","d","a","k"," ","s","a","d","a","r">>)
\* "tidak \x01 sadar": the same words with a control character between two
\* spaces
MsgControl == Str(<<"t","i","d","a","k"," ","\\x01"," ","s","a","d","a","r">>)
\* "Bengkak": a serious-symptom keyword
MsgSerious == Str(<<"B","e","n","g","k","a","k">>)
\* "Hi": shorter than three characters
MsgShort == Str(<<"H","i">>)

Inputs == {MsgEmergency, MsgControl, MsgSerious, MsgShort, NumberInput}

\* sessionId: null (the default) or a caller-supplied string
NullSession == "null"
SessionIds == {NullSession, "s1"}
\* the session ids of the conversation-store runs: none, and two sessions
HistorySessions == {NullSession, "s1", "s2"}
\* sessionId || 'anonymous'
identifierOf(sessionId) == IF sessionId = NullSession THEN "anonymous" ELSE sessionId

Options == [useContext : BOOLEAN, bypassCache : BOOLEAN]

\* what the model's generateContent resolves to: a candidate text, or a
\* response without usable text (malformed, empty, safety-blocked)
Malformed == <<>>
ModelResults == {<<"O","k"," ">>, Malformed}
\* the text of the k-th chunk a model stream yields: "a", " ", "a", ...
chunkText(k) == IF k % 2 = 1 THEN <<"a">> ELSE <<" ">>
\* the onChunk argument: absent, or a callback that throws
Callbacks == {"none", "throws"}

FallbackText ==
  <<"Maaf, saya tidak dapat memberikan jawaban saat ini. Silakan coba lagi atau konsultasikan dengan dokter hewan jika ini adalah kondisi darurat.">>
StreamFallbackText ==
  <<"Maaf, saya tidak dapat memberikan jawaban saat ini.">>

ErrNotInitialized == "Chatbot not initialized. Call initialize() first."
ErrInitialization == "initializationError"
ErrRateLimit == "Terlalu banyak permintaan. Silakan coba lagi nanti."
ErrInvalidInput == "Input tidak valid"
ErrTimeout == "Response generation timeout"
ErrProvider == "provider error"
ErrCallback == "onChunk error"
ErrTypeError == "TypeError: userMessage?.substring is not a function"

\* validateInput, the urgency level and the cache key of each input, computed
\* once
Validation == [input \in Inputs |-> validateInput(input)]
Urgency == [input \in Inputs |-> detectUrgency(Validation[input].sanitizedInput)]
CacheKey == [input \in Inputs |-> generateCacheKey(Validation[input].sanitizedInput)]

-----------------------------------------------------------------------------
(* State                                                                   *)

VARIABLES
  now,                  \* Date.now()
  initialized,          \* PurrPalChatbot.initialized
  initializationError,  \* PurrPalChatbot.initializationError is not null
  probing,              \* initialize() calls awaiting _testConnection
  cache,                \* the module's cache Map: key -> payload
  cacheTimestamps,      \* the module's cacheTimestamps Map: key -> storedAt
  rateLimitStore,       \* the module's rateLimitStore Map: identifier -> timestamps
  conversationHistory,  \* PurrPalChatbot.conversationHistory: sessionId -> turn
  metrics,              \* MetricsCollector.metrics
  req,                  \* the requests suspended at an await, by slot
  calls,                \* number of request calls made so far
  last,                 \* the most recent step and how it ended
  admitted              \* history: per identifier, the times of its accepted checks

vars == <<now, initialized, initializationError, probing, cache, cacheTimestamps,
          rateLimitStore, conversationHistory, metrics, req, calls, last, admitted>>

Slots == 1..MaxInflight
Idle == [pc |-> "idle"]
\* a model call whose request has already returned (its timeout fired)
Abandoned == [pc |-> "abandoned"]

\* The record kept in last.  outcome is "pending" (suspended at the model),
\* "success" or "failure" (the envelope returned), "thrown" (the call
\* rejected instead of returning an envelope) or "none" (not a request).
Event(op, outcome, error, urgencyLevel) ==
  [op |-> op, outcome |-> outcome, error |-> error, urgencyLevel |-> urgencyLevel,
   evicted |-> FALSE]
NoEvent == Event("none", "none", "", "normal")

FreeSlots == {r \in Slots : req[r] = Idle}
\* the slot a newly suspended request occupies
NextSlot == CHOOSE r \in FreeSlots : \A q \in FreeSlots : r <= q

Identifiers ==
  {identifierOf(sessionId) : sessionId \in SessionIds \cup HistorySessions}

Init ==
  /\ now = MinuteMs
  /\ initialized = FALSE
  /\ initializationError = FALSE
  /\ probing = 0
  /\ cache = EmptyMap
  /\ cacheTimestamps = EmptyMap
  /\ rateLimitStore = EmptyMap
  /\ conversationHistory = EmptyMap
  /\ metrics = ZeroMetrics
  /\ req = [r \in Slots |-> Idle]
  /\ calls = 0
  /\ last = NoEvent
  /\ admitted = [identifier \in Identifiers |-> <<>>]

-----------------------------------------------------------------------------
(* Time, lifecycle and maintenance operations                              *)

Tick ==
  /\ now < MaxTime * MinuteMs
  /\ now' = now + MinuteMs
  /\ last' = NoEvent
  /\ UNCHANGED <<initialized, initializationError, probing, cache, cacheTimestamps,
                 rateLimitStore, conversationHistory, metrics, req, calls, admitted>>

\* InitializeStart marking the chatbot ready before the probe has resolved
InitializeStartReady ==
  /\ probing < MaxProbes
  /\ probing' = probing + 1
  /\ initialized' = TRUE
  /\ last' = NoEvent
  /\ UNCHANGED <<now, initializationError, cache, cacheTimestamps,
                 rateLimitStore, conversationHistory, metrics, req, calls, admitted>>

\* initialize(): client setup succeeds and the call suspends in _testConnection
InitializeStart ==
  /\ probing < MaxProbes
  /\ probing' = probing + 1
  /\ last' = NoEvent
  /\ UNCHANGED <<now, initialized, initializationError, cache, cacheTimestamps,
                 rateLimitStore, conversationHistory, metrics, req, calls, admitted>>

\* initialize(): client setup throws; the catch block records the error
InitializeSetupFails ==
  /\ initializationError' = TRUE
  /\ initialized' = FALSE
  /\ last' = NoEvent
  /\ UNCHANGED <<now, probing, cache, cacheTimestamps, rateLimitStore,
                 conversationHistory, metrics, req, calls, admitted>>

\* initialize(): the probe resolved
ProbeSucceeds ==
  /\ probing > 0
  /\ probing' = probing - 1
  /\ initialized' = TRUE
  /\ initializationError' = FALSE
  /\ last' = NoEvent
  /\ UNCHANGED <<now, cache, cacheTimestamps, rateLimitStore, conversationHistory,
                 metrics, req, calls, admitted>>

\* initialize(): the probe rejected
ProbeFails ==
  /\ probing > 0
  /\ probing' = probing - 1
  /\ initialized' = FALSE
  /\ initializationError' = TRUE
  /\ last' = NoEvent
  /\ UNCHANGED <<now, cache, cacheTimestamps, rateLimitStore, conversationHistory,
                 metrics, req, calls, admitted>>

Shutdown ==
  /\ conversationHistory' = EmptyMap
  /\ cache' = EmptyMap
  /\ cacheTimestamps' = EmptyMap
  /\ initialized' = FALSE
  /\ last' = Event("shutdown", "none", "", "normal")
  /\ UNCHANGED <<now, initializationError, probing, rateLimitStore, metrics, req,
                 calls, admitted>>

ClearCache ==
  /\ cache' = EmptyMap
  /\ cacheTimestamps' = EmptyMap
  /\ last' = NoEvent
  /\ UNCHANGED <<now, initialized, initializationError, probing, rateLimitStore,
                 conversationHistory, metrics, req, calls, admitted>>

\* clearConversationHistory dropping the turns of all sessions
ClearConversationHistoryAll(sessionId) ==
  /\ conversationHistory' = IF sessionId # NullSession
                            THEN EmptyMap
                            ELSE conversationHistory
  /\ last' = NoEvent
  /\ UNCHANGED <<now, initialized, initializationError, probing, cache,
                 cacheTimestamps, rateLimitStore, metrics, req, calls, admitted>>

ClearConversationHistory(sessionId) ==
  /\ conversationHistory' = IF sessionId # NullSession
                            THEN MapDelete(conversationHistory, sessionId)
                            ELSE conversationHistory
  /\ last' = NoEvent
  /\ UNCHANGED <<now, initialized, initializationError, probing, cache,
                 cacheTimestamps, rateLimitStore, metrics, req, calls, admitted>>

ResetMetrics ==
  /\ metrics' = ZeroMetrics
  /\ last' = NoEvent
  /\ UNCHANGED <<now, initialized, initializationError, probing, cache,
                 cacheTimestamps, rateLimitStore, conversationHistory, req, calls,
                 admitted>>

-----------------------------------------------------------------------------
(* PurrPalChatbot.generateResponse                                         *)

\* genPath without the early return on a failed validation
genPathNoValidation(isInitialized, allowed, isValid, hit, bypassCache) ==
  IF ~isInitialized THEN "notInitialized"
  ELSE IF ~allowed THEN "rateLimited"
  ELSE IF hit /\ ~bypassCache THEN "cacheHit"
  ELSE "invoke"

\* genPath without the cache lookup: every valid request invokes the model
genPathNoLookup(isInitialized, allowed, isValid, hit, bypassCache) ==
  IF ~isInitialized THEN "notInitialized"
  ELSE IF ~allowed THEN "rateLimited"
  ELSE IF ~isValid THEN "invalid"
  ELSE "invoke"

\* genPath that ignores options.bypassCache: a hit is always served
genPathNoBypass(isInitialized, allowed, isValid, hit, bypassCache) ==
  IF ~isInitialized THEN "notInitialized"
  ELSE IF ~allowed THEN "rateLimited"
  ELSE IF ~isValid THEN "invalid"
  ELSE IF hit THEN "cacheHit"
  ELSE "invoke"

\* the branch generateResponse takes before its model call
genPath(isInitialized, allowed, isValid, hit, bypassCache) ==
  IF ~isInitialized THEN "notInitialized"
  ELSE IF ~allowed THEN "rateLimited"
  ELSE IF ~isValid THEN "invalid"
  ELSE IF hit /\ ~bypassCache THEN "cacheHit"
  ELSE "invoke"

\* shouldCache without the urgency test
shouldCacheAlways(urgencyLevel) == cacheEnabled

\* "only cache non-emergency responses"
shouldCache(urgencyLevel) == urgencyLevel # "emergency" /\ cacheEnabled

\* timerDue when no timer was armed
timerNever(time, startTime) == FALSE

\* the setTimeout callback of _generateWithTimeout may run
timerDue(time, startTime) == time - startTime >= responseTimeout

\* RateLimiter.checkRateLimit(sessionId || 'anonymous') in the current state
rateCheck(sessionId) == checkRateLimit(rateLimitStore, identifierOf(sessionId), now)

\* CacheManager.get(cacheKey) in the current state
lookup(userMessage) == CacheGet(cache, cacheTimestamps, CacheKey[userMessage], now)

\* the branch a generateResponse call takes in the current state
genPathOf(userMessage, sessionId, options) ==
  genPath(initialized, rateCheck(sessionId).allowed, Validation[userMessage].isValid,
          Validation[userMessage].isValid /\ lookup(userMessage).value # Absent,
          options.bypassCache)

\* the error a generateResponse call raises before its model call, if any
genError(userMessage, sessionId, options) ==
  LET path == genPathOf(userMessage, sessionId, options)
  IN  CASE path = "notInitialized" ->
             IF ~substringSafe(userMessage) THEN ErrTypeError
             ELSE IF initializationError THEN ErrInitialization ELSE ErrNotInitialized
        [] path = "rateLimited" -> ErrRateLimit
        [] path = "invalid" ->
             IF ~substringSafe(userMessage) THEN ErrTypeError ELSE ErrInvalidInput
        [] OTHER -> ""

\* how a generateResponse call ends before or at its model call: with an
\* envelope ("success", "failure"), suspended ("pending"), or by rejecting
\* ("thrown": a logger argument userMessage?.substring(0, 100) raised a
\* TypeError, the second time inside the catch block)
genOutcome(userMessage, sessionId, options) ==
  LET path == genPathOf(userMessage, sessionId, options)
  IN  CASE path = "cacheHit" -> "success"
        [] path = "invoke" -> "pending"
        [] path = "rateLimited" -> "failure"
        [] OTHER -> IF substringSafe(userMessage) THEN "failure" ELSE "thrown"

\* the envelope a generateResponse call returns without a model call
genEnvelope(userMessage, sessionId, options) ==
  LET outcome == genOutcome(userMessage, sessionId, options)
  IN  CASE outcome = "failure" ->
             createErrorResponse(genError(userMessage, sessionId, options))
        [] outcome = "success" ->
             Merge(lookup(userMessage).value, [cached |-> TRUE, responseTimeMs |-> 0])
        [] OTHER -> Absent

\* the prompt generateResponse builds for its model call
genPrompt(userMessage, sessionId, options) ==
  IF sessionId \in DOMAIN conversationHistory /\ options.useContext
  THEN createFollowUpPrompt(conversationHistory[sessionId].lastResponse,
                            Validation[userMessage].sanitizedInput)
  ELSE createCatCarePrompt(Validation[userMessage].sanitizedInput)

\* the metrics after the synchronous part of a generateResponse call
genMetrics(userMessage, sessionId, options) ==
  LET path == genPathOf(userMessage, sessionId, options)
  IN  CASE path = "notInitialized" -> recordRequest(metrics, FALSE, 0, FALSE, "normal")
        [] path = "invalid" /\ ~substringSafe(userMessage) ->
             \* the TypeError of logger.warn's argument reaches the catch block
             recordRequest(metrics, FALSE, 0, FALSE, "normal")
        [] path = "cacheHit" ->
             recordRequest(metrics, TRUE, 0, TRUE, lookup(userMessage).value.urgencyLevel)
        [] OTHER -> metrics

\* the history of accepted checks after a check for sessionId
admit(sessionId) ==
  IF rateCheck(sessionId).allowed
  THEN [admitted EXCEPT ![identifierOf(sessionId)] = Append(@, now)]
  ELSE admitted

\* generateResponse from its entry to its first suspension or return
GenerateResponse(userMessage, sessionId, options) ==
  LET path == genPathOf(userMessage, sessionId, options)
      checked == path # "notInitialized"
      lookedUp == path \in {"cacheHit", "invoke"}
  IN
  /\ calls' = calls + 1
  /\ path = "invoke" => FreeSlots # {}
  /\ rateLimitStore' = IF checked THEN rateCheck(sessionId).store ELSE rateLimitStore
  /\ admitted' = IF checked THEN admit(sessionId) ELSE admitted
  /\ cache' = IF lookedUp THEN lookup(userMessage).cache ELSE cache
  /\ cacheTimestamps' = IF lookedUp THEN lookup(userMessage).cacheTimestamps
                        ELSE cacheTimestamps
  /\ metrics' = genMetrics(userMessage, sessionId, options)
  /\ req' = IF path = "invoke"
            THEN [req EXCEPT ![NextSlot] =
                    [pc |-> "awaitModel", op |-> "generateResponse",
                     sessionId |-> sessionId, startTime |-> now,
                     sanitizedMessage |-> Validation[userMessage].sanitizedInput,
                     cacheKey |-> CacheKey[userMessage],
                     urgencyLevel |-> Urgency[userMessage],
                     evicted |-> lookup(userMessage).cache # cache]]
            ELSE req
  /\ last' = Event("generateResponse", genOutcome(userMessage, sessionId, options),
                   genError(userMessage, sessionId, options),
                   IF path = "cacheHit" THEN lookup(userMessage).value.urgencyLevel
                   ELSE IF path = "invoke" THEN Urgency[userMessage] ELSE "normal")
  /\ UNCHANGED <<now, initialized, initializationError, probing, conversationHistory>>

\* updateHistory that writes only when the session has no turn yet
updateHistoryKeepsTurn(history, sessionId, lastMessage, lastResponse, urgencyLevel) ==
  IF sessionId # NullSession /\ sessionId \notin DOMAIN history
  THEN MapSet(history, sessionId,
              [lastMessage |-> lastMessage, lastResponse |-> lastResponse,
               urgencyLevel |-> urgencyLevel])
  ELSE history

\* this.conversationHistory.set(sessionId, {...}) under "if (sessionId)";
\* the turn's ISO timestamp is left out
updateHistory(history, sessionId, lastMessage, lastResponse, urgencyLevel) ==
  IF sessionId # NullSession
  THEN MapSet(history, sessionId,
              [lastMessage |-> lastMessage, lastResponse |-> lastResponse,
               urgencyLevel |-> urgencyLevel])
  ELSE history

\* generatedTextOf without the fallback: a result without text yields the
\* empty text
generatedTextOfResult(result) == result

\* the text _generateWithTimeout resolves to
generatedTextOf(result) == IF result = Malformed THEN FallbackText ELSE result

\* the envelope generateResponse returns after its model call resolved
answerEnvelope(r, result) ==
  formatResponse(generatedTextOf(result), req[r].urgencyLevel, FALSE,
                 now - req[r].startTime)

\* generateContent resolved: generateResponse runs from the await to its return
ModelAnswers(r, result) ==
  /\ req[r].pc = "awaitModel"
  /\ LET q == req[r]
         stored == IF shouldCache(q.urgencyLevel)
                   THEN CacheSet(cache, cacheTimestamps, q.cacheKey,
                                 Merge(answerEnvelope(r, result),
                                       [urgencyLevel |-> q.urgencyLevel]), now)
                   ELSE [cache |-> cache, cacheTimestamps |-> cacheTimestamps]
     IN  /\ cache' = stored.cache
         /\ cacheTimestamps' = stored.cacheTimestamps
         /\ conversationHistory' = updateHistory(conversationHistory, q.sessionId,
                                                 q.sanitizedMessage,
                                                 generatedTextOf(result), q.urgencyLevel)
         /\ metrics' = recordRequest(metrics, TRUE, now - q.startTime, FALSE,
                                     q.urgencyLevel)
         /\ last' = Event(q.op, "success", "", q.urgencyLevel)
  /\ req' = [req EXCEPT ![r] = Idle]
  /\ UNCHANGED <<now, initialized, initializationError, probing, rateLimitStore,
                 calls, admitted>>

\* modelFailure with a catch block that also drops the session's turn
modelFailureDropsTurn(r, error, slotAfter) ==
  /\ metrics' = recordRequest(metrics, FALSE, now - req[r].startTime, FALSE, "normal")
  /\ last' = [Event(req[r].op, "failure", error, req[r].urgencyLevel)
                EXCEPT !.evicted = req[r].evicted]
  /\ req' = [req EXCEPT ![r] = slotAfter]
  /\ conversationHistory' = MapDelete(conversationHistory, req[r].sessionId)
  /\ UNCHANGED <<now, initialized, initializationError, probing, cache,
                 cacheTimestamps, rateLimitStore, calls, admitted>>

\* the catch block after a rejected _generateWithTimeout: the message is a
\* valid string there, so the logger arguments evaluate and an envelope returns
modelFailure(r, error, slotAfter) ==
  /\ metrics' = recordRequest(metrics, FALSE, now - req[r].startTime, FALSE, "normal")
  /\ last' = [Event(req[r].op, "failure", error, req[r].urgencyLevel)
                EXCEPT !.evicted = req[r].evicted]
  /\ req' = [req EXCEPT ![r] = slotAfter]
  /\ UNCHANGED <<now, initialized, initializationError, probing, cache,
                 cacheTimestamps, rateLimitStore, conversationHistory, calls, admitted>>

\* generateContent rejected (provider error)
ModelFails(r) ==
  /\ req[r].pc = "awaitModel"
  /\ modelFailure(r, ErrProvider, Idle)

\* the timer of _generateWithTimeout fired first; the model call stays pending
ModelTimesOut(r) ==
  /\ req[r].pc = "awaitModel"
  /\ timerDue(now, req[r].startTime)
  /\ modelFailure(r, ErrTimeout, Abandoned)

\* LateModelResult with a promise that settles twice: the late result resumes
\* generateResponse after its await, which records a successful request
LateModelResultResumes(r) ==
  /\ req[r] = Abandoned
  /\ req' = [req EXCEPT ![r] = Idle]
  /\ last' = Event("generateResponse", "success", "", "normal")
  /\ metrics' = recordRequest(metrics, TRUE, 0, FALSE, "normal")
  /\ UNCHANGED <<now, initialized, initializationError, probing, cache,
                 cacheTimestamps, rateLimitStore, conversationHistory,
                 calls, admitted>>

\* the model call of a timed-out request settles: resolve/reject on the
\* already rejected promise do nothing
LateModelResult(r) ==
  /\ req[r] = Abandoned
  /\ req' = [req EXCEPT ![r] = Idle]
  /\ last' = Event("lateModelResult", "none", "", "normal")
  /\ UNCHANGED <<now, initialized, initializationError, probing, cache,
                 cacheTimestamps, rateLimitStore, conversationHistory, metrics,
                 calls, admitted>>

-----------------------------------------------------------------------------
(* PurrPalChatbot.generateStreamingResponse                                *)

\* the branch generateStreamingResponse takes before it opens the stream
streamPathOf(userMessage, sessionId) ==
  IF ~initialized THEN "notInitialized"
  ELSE IF ~rateCheck(sessionId).allowed THEN "rateLimited"
  ELSE IF ~Validation[userMessage].isValid THEN "invalid"
  ELSE "invoke"

\* the error thrown on that branch
streamError(userMessage, sessionId) ==
  LET path == streamPathOf(userMessage, sessionId)
  IN  CASE path = "notInitialized" -> ErrNotInitialized
        [] path = "rateLimited" -> ErrRateLimit
        [] path = "invalid" -> ErrInvalidInput
        [] OTHER -> ""

\* generateStreamingResponse from its entry to the first await on the stream
GenerateStreamingResponse(userMessage, sessionId, onChunk) ==
  LET path == streamPathOf(userMessage, sessionId)
      checked == path # "notInitialized"
  IN
  /\ calls' = calls + 1
  /\ path = "invoke" => FreeSlots # {}
  /\ rateLimitStore' = IF checked THEN rateCheck(sessionId).store ELSE rateLimitStore
  /\ admitted' = IF checked THEN admit(sessionId) ELSE admitted
  /\ metrics' = IF path = "invoke" THEN metrics
                ELSE recordRequest(metrics, FALSE, 0, FALSE, "normal")
  /\ req' = IF path = "invoke"
            THEN [req EXCEPT ![NextSlot] =
                    [pc |-> "awaitStream", op |-> "generateStreamingResponse",
                     sessionId |-> sessionId, startTime |-> now,
                     sanitizedMessage |-> Validation[userMessage].sanitizedInput,
                     urgencyLevel |-> Urgency[userMessage], onChunk |-> onChunk,
                     fullResponse |-> <<>>, chunkCount |-> 0,
                     chunks |-> <<>>, delivered |-> <<>>]]
            ELSE req
  /\ last' = Event("generateStreamingResponse",
                   IF path = "invoke" THEN "pending" ELSE "failure",
                   streamError(userMessage, sessionId),
                   IF path = "invoke" THEN Urgency[userMessage] ELSE "normal")
  /\ UNCHANGED <<now, initialized, initializationError, probing, cache,
                 cacheTimestamps, conversationHistory>>

\* StreamItem handing the callback the chunk alone as accumulated text
StreamItemChunkOnly(r, chunk) ==
  /\ req[r].pc = "awaitStream"
  /\ IF req[r].onChunk = "throws"
     THEN /\ metrics' = recordRequest(metrics, FALSE, now - req[r].startTime, FALSE,
                                      "normal")
          /\ last' = Event(req[r].op, "failure", ErrCallback, req[r].urgencyLevel)
          /\ req' = [req EXCEPT ![r] = Idle]
     ELSE /\ req' = [req EXCEPT
                       ![r].fullResponse = @ \o chunk,
                       ![r].chunkCount = @ + 1,
                       ![r].chunks = Append(@, chunk),
                       ![r].delivered =
                         IF req[r].onChunk = "records"
                         THEN Append(@, [chunk |-> chunk,
                                         fullResponse |-> chunk,
                                         chunkNumber |-> req[r].chunkCount + 1])
                         ELSE @]
          /\ last' = Event(req[r].op, "pending", "", req[r].urgencyLevel)
          /\ UNCHANGED metrics
  /\ UNCHANGED <<now, initialized, initializationError, probing, cache,
                 cacheTimestamps, rateLimitStore, conversationHistory, calls, admitted>>

\* what the loop body does with a stream item whose first part has the text
\* chunk: accumulate it, count it, and call onChunk.  chunks keeps the texts
\* the stream emitted, delivered the arguments a recording callback received.
StreamItem(r, chunk) ==
  /\ req[r].pc = "awaitStream"
  /\ IF req[r].onChunk = "throws"
     THEN /\ metrics' = recordRequest(metrics, FALSE, now - req[r].startTime, FALSE,
                                      "normal")
          /\ last' = Event(req[r].op, "failure", ErrCallback, req[r].urgencyLevel)
          /\ req' = [req EXCEPT ![r] = Idle]
     ELSE /\ req' = [req EXCEPT
                       ![r].fullResponse = @ \o chunk,
                       ![r].chunkCount = @ + 1,
                       ![r].chunks = Append(@, chunk),
                       ![r].delivered =
                         IF req[r].onChunk = "records"
                         THEN Append(@, [chunk |-> chunk,
                                         fullResponse |-> req[r].fullResponse \o chunk,
                                         chunkNumber |-> req[r].chunkCount + 1])
                         ELSE @]
          /\ last' = Event(req[r].op, "pending", "", req[r].urgencyLevel)
          /\ UNCHANGED metrics
  /\ UNCHANGED <<now, initialized, initializationError, probing, cache,
                 cacheTimestamps, rateLimitStore, conversationHistory, calls, admitted>>

\* the stream yields its next item with text
StreamChunk(r) ==
  /\ req[r].pc = "awaitStream"
  /\ req[r].chunkCount < MaxChunks
  /\ StreamItem(r, chunkText(req[r].chunkCount + 1))

\* the stream yields an item without candidates, content or parts: the loop
\* body skips it
StreamItemWithoutText(r) ==
  /\ req[r].pc = "awaitStream"
  /\ last' = Event(req[r].op, "pending", "", req[r].urgencyLevel)
  /\ UNCHANGED <<now, initialized, initializationError, probing, cache,
                 cacheTimestamps, rateLimitStore, conversationHistory, metrics, req,
                 calls, admitted>>

\* the envelope generateStreamingResponse returns when the stream is exhausted
streamEnvelope(r) ==
  formatResponse(IF req[r].fullResponse = <<>> THEN StreamFallbackText
                 ELSE req[r].fullResponse,
                 req[r].urgencyLevel, FALSE, now - req[r].startTime)

\* the stream is exhausted: format, update the history, record, return
StreamEnds(r) ==
  /\ req[r].pc = "awaitStream"
  /\ conversationHistory' = updateHistory(conversationHistory, req[r].sessionId,
                                          req[r].sanitizedMessage, req[r].fullResponse,
                                          req[r].urgencyLevel)
  /\ metrics' = recordRequest(metrics, TRUE, now - req[r].startTime, FALSE,
                              req[r].urgencyLevel)
  /\ last' = Event(req[r].op, "success", "", req[r].urgencyLevel)
  /\ req' = [req EXCEPT ![r] = Idle]
  /\ UNCHANGED <<now, initialized, initializationError, probing, cache,
                 cacheTimestamps, rateLimitStore, calls, admitted>>

\* the stream rejects (provider error)
StreamFails(r) ==
  /\ req[r].pc = "awaitStream"
  /\ metrics' = recordRequest(metrics, FALSE, now - req[r].startTime, FALSE, "normal")
  /\ last' = Event(req[r].op, "failure", ErrProvider, req[r].urgencyLevel)
  /\ req' = [req EXCEPT ![r] = Idle]
  /\ UNCHANGED <<now, initialized, initializationError, probing, cache,
                 cacheTimestamps, rateLimitStore, conversationHistory, calls, admitted>>

-----------------------------------------------------------------------------
(* Specifications                                                          *)

Next ==
  \/ Tick
  \/ InitializeStart
  \/ InitializeSetupFails
  \/ ProbeSucceeds
  \/ ProbeFails
  \/ Shutdown
  \/ ClearCache
  \/ \E sessionId \in SessionIds : ClearConversationHistory(sessionId)
  \/ ResetMetrics
  \/ /\ calls < MaxCalls
     /\ \E userMessage \in Inputs, sessionId \in SessionIds, options \in Options :
          GenerateResponse(userMessage, sessionId, options)
  \/ \E r \in Slots, result \in ModelResults : ModelAnswers(r, result)
  \/ \E r \in Slots : ModelFails(r)
  \/ \E r \in Slots : ModelTimesOut(r)
  \/ \E r \in Slots : LateModelResult(r)
  \/ /\ calls < MaxCalls
     /\ \E userMessage \in Inputs, sessionId \in SessionIds, onChunk \in Callbacks :
          GenerateStreamingResponse(userMessage, sessionId, onChunk)
  \/ \E r \in Slots : StreamChunk(r)
  \/ \E r \in Slots : StreamEnds(r)
  \/ \E r \in Slots : StreamFails(r)

\* the whole chatbot
Spec == Init /\ [][Next]_vars

\* The chatbot driven through generateResponse only: lifecycle, maintenance
\* and up to MaxCalls generateResponse calls, at most MaxInflight of them
\* suspended at the model at a time.
RequestNext ==
  \/ Tick
  \/ InitializeStart
  \/ InitializeSetupFails
  \/ ProbeSucceeds
  \/ ProbeFails
  \/ Shutdown
  \/ ClearCache
  \/ \E sessionId \in SessionIds : ClearConversationHistory(sessionId)
  \/ ResetMetrics
  \/ /\ calls < MaxCalls
     /\ \E userMessage \in Inputs, sessionId \in SessionIds, options \in Options :
          GenerateResponse(userMessage, sessionId, options)
  \/ \E r \in Slots, result \in ModelResults : ModelAnswers(r, result)
  \/ \E r \in Slots : ModelFails(r)
  \/ \E r \in Slots : ModelTimesOut(r)
  \/ \E r \in Slots : LateModelResult(r)

RequestSpec == Init /\ [][RequestNext]_vars

\* what generateResponse(userMessage, sessionId) passes for options = {}
DefaultOptions == [useContext |-> FALSE, bypassCache |-> FALSE]
\* the messages of the rate-limit runs: one valid, one failing validation
RateInputs == {MsgSerious, MsgShort}

\* A chatbot that is initialized once and then receives up to MaxRateCalls
\* generateResponse calls with default options: enough calls to fill a
\* window, be rejected, and be accepted again once the window has passed.
RateNext ==
  \/ Tick
  \/ InitializeStart
  \/ ProbeSucceeds
  \/ /\ calls < MaxRateCalls
     /\ \E userMessage \in RateInputs, sessionId \in SessionIds :
          GenerateResponse(userMessage, sessionId, DefaultOptions)
  \/ \E r \in Slots, result \in ModelResults : ModelAnswers(r, result)

RateSpec == Init /\ [][RateNext]_vars

\* Requests start while the clock of the model can still reach their
\* timeout; the model may answer, fail, or stay silent.
LiveNext ==
  \/ Tick
  \/ InitializeStart
  \/ ProbeSucceeds
  \/ /\ calls < MaxCalls
     /\ now < MaxTime * MinuteMs
     /\ \E userMessage \in RateInputs, sessionId \in SessionIds :
          GenerateResponse(userMessage, sessionId, DefaultOptions)
  \/ \E r \in Slots, result \in ModelResults : ModelAnswers(r, result)
  \/ \E r \in Slots : ModelFails(r)
  \/ \E r \in Slots : ModelTimesOut(r)
  \/ \E r \in Slots : LateModelResult(r)

\* The clock advances and a due timer callback eventually runs (the event
\* loop runs every due setTimeout callback); the model itself is under no
\* obligation to answer.
LiveSpec ==
  /\ Init /\ [][LiveNext]_vars
  /\ WF_vars(Tick)
  /\ \A r \in Slots : WF_vars(ModelTimesOut(r))

\* The chatbot driven through generateStreamingResponse only.
StreamLiveNext ==
  \/ Tick
  \/ InitializeStart
  \/ ProbeSucceeds
  \/ /\ calls < MaxCalls
     /\ now < MaxTime * MinuteMs
     /\ \E userMessage \in RateInputs, sessionId \in SessionIds, onChunk \in Callbacks :
          GenerateStreamingResponse(userMessage, sessionId, onChunk)
  \/ \E r \in Slots : StreamChunk(r)
  \/ \E r \in Slots : StreamEnds(r)
  \/ \E r \in Slots : StreamFails(r)

\* The clock advances; generateStreamingResponse arms no timer, and the
\* stream itself is under no obligation to yield, end or fail.
StreamLiveSpec ==
  /\ Init /\ [][StreamLiveNext]_vars
  /\ WF_vars(Tick)

\* the texts a stream item may carry (text || '': a part without text counts
\* as an empty chunk) and the callbacks of the streaming runs
ChunkTexts == {<<"a">>, <<" ">>, <<>>}
StreamCallbacks == {"none", "records", "throws"}

\* A ready chatbot driven through generateStreamingResponse, on streams of up
\* to MaxStreamChunks items with text, in any order of texts.
StreamNext ==
  \/ InitializeStart
  \/ ProbeSucceeds
  \/ /\ calls < MaxCalls
     /\ \E userMessage \in RateInputs, sessionId \in SessionIds,
           onChunk \in StreamCallbacks :
          GenerateStreamingResponse(userMessage, sessionId, onChunk)
  \/ \E r \in Slots, chunk \in ChunkTexts :
       /\ req[r].pc = "awaitStream"
       /\ req[r].chunkCount < MaxStreamChunks
       /\ StreamItem(r, chunk)
  \/ \E r \in Slots : StreamItemWithoutText(r)
  \/ \E r \in Slots : StreamEnds(r)
  \/ \E r \in Slots : StreamFails(r)

StreamSpec == Init /\ [][StreamNext]_vars

\* the response times and urgency levels passed to recordRequest directly
ResponseTimes == {0, 100, 300}
UrgencyLevels == {"normal", "serious", "emergency"}

\* MetricsCollector.recordRequest(success, responseTime, cached, urgencyLevel)
\* called directly
RecordRequest(success, responseTime, cached, urgencyLevel) ==
  /\ metrics' = recordRequest(metrics, success, responseTime, cached, urgencyLevel)
  /\ calls' = calls + 1
  /\ last' = Event("recordRequest", IF success THEN "success" ELSE "failure", "",
                   urgencyLevel)
  /\ UNCHANGED <<now, initialized, initializationError, probing, cache,
                 cacheTimestamps, rateLimitStore, conversationHistory, req, admitted>>

\* MetricsCollector.resetMetrics() called directly
CollectorReset ==
  /\ metrics' = ZeroMetrics
  /\ calls' = 0
  /\ last' = Event("resetMetrics", "none", "", "normal")
  /\ UNCHANGED <<now, initialized, initializationError, probing, cache,
                 cacheTimestamps, rateLimitStore, conversationHistory, req, admitted>>

\* The MetricsCollector on its own: up to MaxRecords recordRequest calls
\* after each reset, so calls counts the record calls since the last reset.
MetricsNext ==
  \/ /\ calls < MaxRecords
     /\ \E success \in BOOLEAN, responseTime \in ResponseTimes, cached \in BOOLEAN,
           urgencyLevel \in UrgencyLevels :
          RecordRequest(success, responseTime, cached, urgencyLevel)
  \/ CollectorReset

MetricsSpec == Init /\ [][MetricsNext]_vars

\* A ready chatbot serving two sessions whose turns are cleared one by one.
HistoryNext ==
  \/ InitializeStart
  \/ ProbeSucceeds
  \/ /\ calls < MaxCalls
     /\ \E userMessage \in RateInputs, sessionId \in HistorySessions :
          GenerateResponse(userMessage, sessionId, DefaultOptions)
  \/ \E r \in Slots, result \in ModelResults : ModelAnswers(r, result)
  \/ \E sessionId \in HistorySessions : ClearConversationHistory(sessionId)

HistorySpec == Init /\ [][HistoryNext]_vars

\* the strings passed to validateInput directly: every text of up to
\* MaxTextLen characters over a letter, a second letter and the space
ValidateTexts ==
  {Str(text) : text \in UNION {[1..n -> {"a", "b", " "}] : n \in 0..MaxTextLen}}

\* InputValidator.validateInput(input) called directly; last keeps the
\* argument and the result
ValidateInput(input) ==
  /\ last' = Merge(Event("validateInput", "none", "", "normal"),
                   [input |-> input, validation |-> validateInput(input)])
  /\ UNCHANGED <<now, initialized, initializationError, probing, cache,
                 cacheTimestamps, rateLimitStore, conversationHistory, metrics, req,
                 calls, admitted>>

\* The InputValidator on its own.
ValidateNext == \E input \in ValidateTexts : ValidateInput(input)

ValidateSpec == Init /\ [][ValidateNext]_vars

\* the keys under which the prefilled entries are stored
PrefilledKeys == {<<ToString(i)>> : i \in 1..Prefilled}

\* A cache that has been filled to just under the soft cap, at the first
\* minute, by requests for Prefilled different messages.
CacheInit ==
  /\ now = MinuteMs
  /\ initialized = FALSE
  /\ initializationError = FALSE
  /\ probing = 0
  /\ cache = [k \in PrefilledKeys |-> formatResponse(FallbackText, "normal", FALSE, 0)]
  /\ cacheTimestamps = [k \in PrefilledKeys |-> MinuteMs]
  /\ rateLimitStore = EmptyMap
  /\ conversationHistory = EmptyMap
  /\ metrics = ZeroMetrics
  /\ req = [r \in Slots |-> Idle]
  /\ calls = 0
  /\ last = NoEvent
  /\ admitted = [identifier \in Identifiers |-> <<>>]

\* CacheManager.set(key, value) called directly; last.evicted tells whether
\* the call removed an entry
CachePut(key, value) ==
  LET stored == CacheSet(cache, cacheTimestamps, key, value, now)
  IN  /\ cache' = stored.cache
      /\ cacheTimestamps' = stored.cacheTimestamps
      /\ last' = [Event("cacheSet", "none", "", "normal")
                    EXCEPT !.evicted = ~((DOMAIN cache) \subseteq DOMAIN stored.cache)]
      /\ UNCHANGED <<now, initialized, initializationError, probing, rateLimitStore,
                     conversationHistory, metrics, req, calls, admitted>>

\* The CacheManager on its own, with the clock: puts under the message keys,
\* of the payload of a model answer, and clear().
CacheNext ==
  \/ Tick
  \/ ClearCache
  \/ \E key \in {CacheKey[m] : m \in Inputs}, result \in ModelResults \ {Malformed} :
       CachePut(key, formatResponse(generatedTextOf(result), "normal", FALSE, 0))

CacheSpec == CacheInit /\ [][CacheNext]_vars

-----------------------------------------------------------------------------
(* Properties                                                              *)

\* the request actions a step may be, by their arguments
Requests == Inputs \X SessionIds \X Options
\* the request actions of a rate-limit run
RateRequests == RateInputs \X SessionIds \X {DefaultOptions}
\* a generateResponse call with arguments q is this step
IsGenerate(q) == GenerateResponse(q[1], q[2], q[3])
\* this step records exactly one failed request
RecordsOneFailure ==
  /\ metrics'.totalRequests = metrics.totalRequests + 1
  /\ metrics'.failedRequests = metrics.failedRequests + 1
  /\ metrics'.successfulRequests = metrics.successfulRequests
\* the accepted checks of identifier that lie inside the window ending now
recentAccepted(identifier) ==
  Len(SelectSeq(admitted[identifier], LAMBDA t : now - t < windowMs))
\* the timestamps stored for identifier
storedRequests(identifier) ==
  IF identifier \in DOMAIN rateLimitStore THEN rateLimitStore[identifier] ELSE <<>>
\* every cache key an explored message maps to
CacheKeys == {CacheKey[m] : m \in Inputs}

\* C1: the cache never holds an entry produced for a request classified
\* emergency (every stored payload carries the urgency level of the request
\* that produced it).
C1_NoEmergencyEntryCached ==
  \A key \in DOMAIN cache : cache[key].urgencyLevel # "emergency"

\* an emergency request was answered by the model while the cache holds
\* entries
C1_Witness ==
  /\ last.op = "generateResponse" /\ last.outcome = "success"
  /\ last.urgencyLevel = "emergency"
  /\ DOMAIN cache # {}

\* C2: every admitted, valid generateResponse request whose sanitized
\* message is classified emergency suspends in a model call (it is never
\* answered from the cache), whatever was cached before.
C2_EmergencyInvokesModel ==
  [][\A q \in Requests :
       (/\ initialized
        /\ Validation[q[1]].isValid
        /\ Urgency[q[1]] = "emergency"
        /\ rateCheck(q[2]).allowed
        /\ IsGenerate(q))
       => \E r \in Slots : req[r] = Idle /\ req'[r].pc = "awaitModel"]_vars

\* C3: a check is accepted exactly when fewer than maxRequests accepted
\* checks of the same identifier lie less than windowMs back; a rejected
\* check reports remaining = 0 and the request fails with the rate-limit
\* error.  So the first maxRequests checks pass, the next is rejected, and
\* checks pass again once the window has elapsed.
C3_RateLimitDecision ==
  [][\A q \in RateRequests :
       (initialized /\ IsGenerate(q))
       => LET check == rateCheck(q[2])
          IN  /\ check.allowed <=> recentAccepted(identifierOf(q[2])) < maxRequests
              /\ check.allowed => /\ last'.error # ErrRateLimit
                                  /\ check.remaining
                                       = maxRequests - recentAccepted(identifierOf(q[2])) - 1
              /\ ~check.allowed => /\ check.remaining = 0
                                   /\ last'.outcome = "failure"
                                   /\ last'.error = ErrRateLimit]_vars

\* one identifier made maxRequests + 2 checks, all while ready: maxRequests
\* accepted, one rejected, and the last one accepted after the window
C3_Witness ==
  \E id \in Identifiers :
    /\ calls = maxRequests + 2
    /\ metrics.failedRequests = 0
    /\ Len(admitted[id]) = maxRequests + 1
    /\ \A other \in Identifiers \ {id} : admitted[other] = <<>>
    /\ admitted[id][maxRequests + 1] = now
    /\ recentAccepted(id) < maxRequests

\* C4: get(key) returns the stored value exactly when an entry exists and
\* now - storedAt <= ttlMs, and leaves the cache alone then; otherwise it
\* returns nothing, and neither map holds the key afterwards.
C4_GetReturnsLiveEntries ==
  \A key \in CacheKeys :
    LET got == CacheGet(cache, cacheTimestamps, key, now)
        live == /\ key \in DOMAIN cacheTimestamps
                /\ now - cacheTimestamps[key] <= ttlMs
    IN  /\ live => /\ got.value = cache[key]
                   /\ got.cache = cache
                   /\ got.cacheTimestamps = cacheTimestamps
        /\ ~live => /\ got.value = Absent
                    /\ key \notin DOMAIN got.cache
                    /\ key \notin DOMAIN got.cacheTimestamps

\* the cache holds an entry exactly ttlMs old and an entry older than that
C4_Witness ==
  \E k1, k2 \in DOMAIN cacheTimestamps :
    /\ now - cacheTimestamps[k1] = ttlMs
    /\ now - cacheTimestamps[k2] > ttlMs
    /\ k1 \in DOMAIN cache /\ k2 \in DOMAIN cache

\* C5: every generateResponse call that ends with a failure envelope, before
\* its model call (not initialized, rate limit, validation) or after it
\* (timeout, provider error), records exactly one failed request.
C5_FailuresAreRecorded ==
  [][/\ \A q \in Requests :
          (last'.outcome = "failure" /\ IsGenerate(q)) => RecordsOneFailure
     /\ \A r \in Slots :
          (ModelFails(r) \/ ModelTimesOut(r)) => RecordsOneFailure]_vars

\* C6: while not ready, a generateResponse call returns a failure envelope,
\* suspends in no model call, leaves the rate-limit store, the cache and the
\* conversation store alone, and records exactly one failed request.
C6_NotReadyFailsFast ==
  [][\A q \in Requests :
       (~initialized /\ IsGenerate(q))
       => /\ last'.outcome = "failure"
          /\ RecordsOneFailure
          /\ UNCHANGED <<req, rateLimitStore, cache, cacheTimestamps,
                         conversationHistory>>]_vars

\* C7: a generateResponse call rejected by the rate limiter or by validation
\* suspends in no model call and leaves every cache entry and every
\* conversation turn as it was.
C7_RejectedTouchesNothing ==
  [][\A q \in RateRequests :
       (/\ initialized
        /\ ~rateCheck(q[2]).allowed \/ ~Validation[q[1]].isValid
        /\ IsGenerate(q))
       => /\ last'.outcome # "pending"
          /\ UNCHANGED <<req, cache, cacheTimestamps, conversationHistory>>]_vars

\* a request was rejected by the rate limiter while the cache and the
\* conversation store hold entries
C7_Witness ==
  /\ last.op = "generateResponse" /\ last.error = ErrRateLimit
  /\ DOMAIN cache # {}
  /\ DOMAIN conversationHistory # {}

\* C8 as stated: an admitted request that fails validation changes no shared
\* store; in particular the timestamps of its identifier stay as they were.
C8_InvalidChangesNoStore ==
  [][\A q \in Requests :
       (/\ initialized
        /\ ~Validation[q[1]].isValid
        /\ rateCheck(q[2]).allowed
        /\ IsGenerate(q))
       => UNCHANGED <<rateLimitStore, cache, cacheTimestamps,
                      conversationHistory>>]_vars

\* C8, amended: an admitted request that fails validation suspends in no
\* model call and leaves the cache and the conversation store alone, but it
\* has consumed one unit of quota: its timestamp is appended to the
\* timestamps of its identifier that are still inside the window.
C8_InvalidConsumesQuota ==
  [][\A q \in Requests :
       (/\ initialized
        /\ ~Validation[q[1]].isValid
        /\ rateCheck(q[2]).allowed
        /\ IsGenerate(q))
       => /\ UNCHANGED <<req, cache, cacheTimestamps, conversationHistory>>
          /\ last'.outcome # "pending"
          /\ rateLimitStore'[identifierOf(q[2])]
               = Append(validRequests(storedRequests(identifierOf(q[2])), now), now)
          /\ \A other \in (DOMAIN rateLimitStore) \ {identifierOf(q[2])} :
               rateLimitStore'[other] = rateLimitStore[other]]_vars

\* a request failed validation with the last unit of its identifier's quota,
\* while the cache holds entries
C8_Witness ==
  /\ last.op = "generateResponse" /\ last.error = ErrInvalidInput
  /\ DOMAIN cache # {}
  /\ \E id \in DOMAIN rateLimitStore :
       /\ Len(rateLimitStore[id]) = maxRequests
       /\ rateLimitStore[id][maxRequests] = now

\* C9 as stated: when the model call of a generateResponse request fails
\* (provider error or timeout), the request has changed neither the cache
\* nor the conversation store since it started, and one failed request is
\* recorded.
C9_FailedRequestChangedNothing ==
  [][\A r \in Slots :
       (ModelFails(r) \/ ModelTimesOut(r))
       => /\ ~req[r].evicted
          /\ UNCHANGED <<cache, cacheTimestamps, conversationHistory>>
          /\ RecordsOneFailure]_vars

\* C9, amended: the failure itself returns a failure envelope, records
\* exactly one failed request and leaves the cache and the conversation
\* store alone; before its model call the request changed no conversation
\* turn, and the only cache change it can have made is the removal of an
\* expired entry stored under its own cache key.
C9_FailureKeepsStores ==
  [][/\ \A r \in Slots :
          (ModelFails(r) \/ ModelTimesOut(r))
          => /\ last'.outcome = "failure"
             /\ RecordsOneFailure
             /\ UNCHANGED <<cache, cacheTimestamps, conversationHistory>>
     /\ \A q \in Requests :
          (last'.outcome = "pending" /\ IsGenerate(q))
          => /\ UNCHANGED conversationHistory
             /\ \/ UNCHANGED <<cache, cacheTimestamps>>
                \/ /\ CacheKey[q[1]] \in DOMAIN cacheTimestamps
                   /\ now - cacheTimestamps[CacheKey[q[1]]] > ttlMs
                   /\ cache' = MapDelete(cache, CacheKey[q[1]])
                   /\ cacheTimestamps' = MapDelete(cacheTimestamps, CacheKey[q[1]])]_vars

\* the model call of a request failed after the request's lookup had removed
\* an expired entry, with a conversation turn in the store
C9_Witness ==
  /\ last.op = "generateResponse" /\ last.outcome = "failure"
  /\ last.error \in {ErrProvider, ErrTimeout}
  /\ last.evicted
  /\ DOMAIN conversationHistory # {}

\* C10: every generateResponse call that is waiting for the model eventually
\* stops waiting (it returns), whether or not the model ever answers.
C10_EveryCallReturns ==
  \A r \in Slots : (req[r].pc = "awaitModel") ~> (req[r].pc # "awaitModel")

\* a request returned through the timeout while its model call is still
\* pending
C10_Witness ==
  /\ last.op = "generateResponse" /\ last.outcome = "failure"
  /\ last.error = ErrTimeout
  /\ \E r \in Slots : req[r] = Abandoned

\* C11: every generateStreamingResponse call that is waiting for its stream
\* eventually stops waiting (it returns an envelope), even if the stream
\* never yields a chunk and never ends.
C11_EveryStreamCallReturns ==
  \A r \in Slots : (req[r].pc = "awaitStream") ~> (req[r].pc # "awaitStream")

\* C12: when the timer of a generateResponse request fires, the request
\* returns the timeout failure envelope and its model call is left behind;
\* when that model call settles later, no further outcome is produced and
\* the cache, the conversation store and the metrics stay as they are.
C12_LateResultHasNoEffect ==
  [][\A r \in Slots :
       /\ ModelTimesOut(r) => /\ last'.outcome = "failure"
                               /\ last'.error = ErrTimeout
                               /\ req'[r] = Abandoned
       /\ (req[r] = Abandoned /\ req'[r] # Abandoned)
            => /\ last'.outcome = "none"
               /\ UNCHANGED <<cache, cacheTimestamps, conversationHistory,
                              metrics>>]_vars

\* the model call of a timed-out request has just settled, with entries in
\* the cache and the conversation store and the timeout recorded
C12_Witness ==
  /\ last.op = "lateModelResult"
  /\ metrics.failedRequests > 0
  /\ DOMAIN cache # {}
  /\ DOMAIN conversationHistory # {}

\* the values Date.now() takes from the current moment on, up to one window
\* past the end of the run
LaterTimes == {k * MinuteMs : k \in (now \div MinuteMs)..(MaxTime + windowMinutes)}

\* C13: a rejected check leaves for its identifier exactly the timestamps
\* that were stored and are still inside the window, and leaves the other
\* identifiers alone; the rejection does not change the outcome of any check
\* made at the same or a later time.
C13_RejectedCheckRecordsNothing ==
  [][\A q \in RateRequests :
       (/\ initialized
        /\ ~rateCheck(q[2]).allowed
        /\ IsGenerate(q))
       => LET id == identifierOf(q[2])
          IN  /\ rateLimitStore'[id]
                   = SelectSeq(storedRequests(id), LAMBDA t : now - t < windowMs)
              /\ \A other \in (DOMAIN rateLimitStore) \ {id} :
                   rateLimitStore'[other] = rateLimitStore[other]
              /\ \A t \in LaterTimes :
                   /\ checkRateLimit(rateLimitStore', id, t).allowed
                        = checkRateLimit(rateLimitStore, id, t).allowed
                   /\ checkRateLimit(rateLimitStore', id, t).resetTime
                        = checkRateLimit(rateLimitStore, id, t).resetTime]_vars

\* one identifier was rejected twice in a row after filling its window
C13_Witness ==
  \E id \in Identifiers :
    /\ last.op = "generateResponse" /\ last.error = ErrRateLimit
    /\ calls = maxRequests + 2
    /\ Len(admitted[id]) = maxRequests
    /\ \A other \in Identifiers \ {id} : admitted[other] = <<>>
    /\ storedRequests(id) = admitted[id]

\* C14: no identifier ever has more than maxRequests timestamps stored; a
\* check that is accepted reports remaining = maxRequests minus the number
\* of timestamps stored after it recorded its own, which is never negative;
\* and an accepted check followed by another accepted check, with no
\* timestamp expiring in between, reports exactly one more than the second.
C14_WindowWithinQuota ==
  \A id \in Identifiers :
    /\ Len(storedRequests(id)) <= maxRequests
    /\ LET first == checkRateLimit(rateLimitStore, id, now)
       IN  first.allowed =>
             /\ first.remaining = maxRequests - Len(first.store[id])
             /\ first.remaining >= 0
             /\ \A t \in LaterTimes :
                  LET second == checkRateLimit(first.store, id, t)
                  IN  (/\ second.allowed
                       /\ \A i \in 1..Len(first.store[id]) :
                            t - first.store[id][i] < windowMs)
                      => second.remaining = first.remaining - 1

\* an accepted check has just taken the last unit of an identifier's quota,
\* whose first unit was taken earlier
C14_Witness ==
  \E id \in Identifiers :
    /\ last.op = "generateResponse" /\ last.error = ""
    /\ Len(storedRequests(id)) = maxRequests
    /\ storedRequests(id)[maxRequests] = now
    /\ storedRequests(id)[1] < now
    /\ ~checkRateLimit(rateLimitStore, id, now).allowed

\* the oldest timestamp stored for identifier that is still inside the
\* window ending now
oldestUnexpired(identifier) ==
  LET stored == storedRequests(identifier)
      unexpired == {stored[i] : i \in {j \in 1..Len(stored) : now - stored[j] < windowMs}}
  IN  CHOOSE t \in unexpired : \A u \in unexpired : t <= u

\* C15: the resetTime of a rejected check is the oldest unexpired timestamp
\* of its identifier plus the window, and it is the moment the identifier
\* is admitted again: with no other check in between, a check made before
\* resetTime is rejected and a check made at resetTime or later is accepted.
C15_ResetTimeIsReadmission ==
  \A id \in Identifiers :
    LET check == checkRateLimit(rateLimitStore, id, now)
    IN  ~check.allowed =>
          /\ check.resetTime = oldestUnexpired(id) + windowMs
          /\ \A t \in LaterTimes :
               checkRateLimit(check.store, id, t).allowed <=> t >= check.resetTime

\* a check was rejected for an identifier whose window holds timestamps of
\* two different moments
C15_Witness ==
  \E id \in Identifiers :
    /\ last.op = "generateResponse" /\ last.error = ErrRateLimit
    /\ Len(storedRequests(id)) = maxRequests
    /\ storedRequests(id)[1] < storedRequests(id)[maxRequests]
    /\ ~checkRateLimit(rateLimitStore, id, now).allowed

\* response payloads as generateResponse stores them
Payloads ==
  {formatResponse(generatedTextOf(result), urgencyLevel, FALSE, responseTime) :
     result \in ModelResults, urgencyLevel \in {"normal", "serious"},
     responseTime \in {0, MinuteMs}}

\* C16: with caching enabled, in every state of the cache (empty, holding
\* live entries, holding expired ones), set(key, value) immediately followed
\* by get(key) returns value.
C16_GetAfterSetReturnsValue ==
  cacheEnabled =>
    \A key \in CacheKeys, value \in Payloads :
      LET put == CacheSet(cache, cacheTimestamps, key, value, now)
      IN  CacheGet(put.cache, put.cacheTimestamps, key, now).value = value

\* the cache holds an entry stored just now and an expired entry that a set
\* would overwrite
C16_Witness ==
  /\ cacheEnabled
  /\ \E k1, k2 \in DOMAIN cache :
       /\ cacheTimestamps[k1] = now
       /\ CacheGet(cache, cacheTimestamps, k1, now).value = cache[k1]
       /\ Expired(now, cacheTimestamps[k2])

\* the arguments of a direct recordRequest call
Records == BOOLEAN \X ResponseTimes \X BOOLEAN \X UrgencyLevels
\* a recordRequest call with arguments a is this step
IsRecord(a) == RecordRequest(a[1], a[2], a[3], a[4])

\* C17: averageResponseTime is the arithmetic mean of the response times of
\* the successful record calls since the last reset: a failed call leaves
\* it as it was, and a successful call with n successes before it takes the
\* mean m to (m * n + responseTime) / (n + 1), starting from 0.
C17_AverageIsMeanOfSuccesses ==
  [][\A a \in Records :
       IsRecord(a)
       => LET m == metrics.averageResponseTime
              m2 == metrics'.averageResponseTime
              n == metrics.successfulRequests
          IN  IF a[1]
              THEN /\ m2.kind = "finite"
                   /\ m2.num * (n + 1) * m.den = (m.num * n + a[2] * m.den) * m2.den
              ELSE m2 = m]_vars

\* C18: with metrics enabled, totalRequests is the number of record calls
\* since the last reset and equals successfulRequests + failedRequests and
\* cacheHits + cacheMisses; each record call adds one to exactly one of
\* successfulRequests and failedRequests, and to exactly one of cacheHits
\* and cacheMisses.
C18_CountersAgree ==
  /\ [](enableMetrics =>
          /\ metrics.totalRequests = calls
          /\ metrics.totalRequests = metrics.successfulRequests + metrics.failedRequests
          /\ metrics.totalRequests = metrics.cacheHits + metrics.cacheMisses)
  /\ [][\A a \in Records :
          (enableMetrics /\ IsRecord(a))
          => LET successful == metrics'.successfulRequests - metrics.successfulRequests
                 failed == metrics'.failedRequests - metrics.failedRequests
                 hits == metrics'.cacheHits - metrics.cacheHits
                 misses == metrics'.cacheMisses - metrics.cacheMisses
             IN  /\ <<successful, failed>> = IF a[1] THEN <<1, 0>> ELSE <<0, 1>>
                 /\ <<hits, misses>> = IF a[3] THEN <<1, 0>> ELSE <<0, 1>>]_vars

\* MaxRecords calls were recorded since the last reset, among them a
\* success, a failure, a cache hit and a cache miss
C18_Witness ==
  /\ last.op = "recordRequest"
  /\ calls = MaxRecords
  /\ metrics.successfulRequests > 0 /\ metrics.failedRequests > 0
  /\ metrics.cacheHits > 0 /\ metrics.cacheMisses > 0

\* this step counts one detection of urgencyLevel, and nothing else, in the
\* two detection counters
CountsDetection(urgencyLevel) ==
  /\ metrics'.emergencyDetections
       = metrics.emergencyDetections + (IF urgencyLevel = "emergency" THEN 1 ELSE 0)
  /\ metrics'.seriousConditionDetections
       = metrics.seriousConditionDetections + (IF urgencyLevel = "serious" THEN 1 ELSE 0)

\* C19: a generateResponse request whose sanitized message is classified
\* emergency (serious) adds exactly one to emergencyDetections
\* (seriousConditionDetections) when it completes, whether the model
\* answered, the model call failed or timed out, or the answer came from the
\* cache.
C19_DetectionsCountEveryRequest ==
  [][/\ \A r \in Slots :
          (ModelFails(r) \/ ModelTimesOut(r) \/ \E result \in ModelResults : ModelAnswers(r, result))
          => CountsDetection(req[r].urgencyLevel)
     /\ \A q \in Requests :
          (/\ initialized
           /\ Validation[q[1]].isValid
           /\ last'.outcome = "success"
           /\ IsGenerate(q))
          => CountsDetection(Urgency[q[1]])]_vars

\* after this step the turn stored for sessionId holds this message and
\* this response
TurnReplaced(sessionId, message, response) ==
  /\ sessionId \in DOMAIN conversationHistory'
  /\ conversationHistory'[sessionId].lastMessage = message
  /\ conversationHistory'[sessionId].lastResponse = response

\* C20: when a generateResponse request made with a session id returns a
\* success envelope, answered by the model or from the cache, the turn
\* stored for its session holds the request's sanitized message and the
\* response text it returned.
C20_SuccessReplacesTurn ==
  [][/\ \A r \in Slots, result \in ModelResults :
          (/\ req[r].pc = "awaitModel"
           /\ req[r].sessionId # NullSession
           /\ ModelAnswers(r, result))
          => TurnReplaced(req[r].sessionId, req[r].sanitizedMessage,
                          generatedTextOf(result))
     /\ \A q \in Requests :
          (/\ initialized
           /\ Validation[q[1]].isValid
           /\ q[2] # NullSession
           /\ last'.outcome = "success"
           /\ IsGenerate(q))
          => TurnReplaced(q[2], Validation[q[1]].sanitizedInput,
                          lookup(q[1]).value.message)]_vars

\* C21: when shutdown() returns, the conversation store, the cache and the
\* rate-limit windows are empty and the chatbot is not ready.
C21_ShutdownClearsEverything ==
  [][Shutdown => /\ conversationHistory' = EmptyMap
                 /\ cache' = EmptyMap
                 /\ cacheTimestamps' = EmptyMap
                 /\ \A id \in DOMAIN rateLimitStore' : rateLimitStore'[id] = <<>>
                 /\ ~initialized']_vars

\* the errors a request can fail with
RequestErrors ==
  {ErrNotInitialized, ErrInitialization, ErrRateLimit, ErrInvalidInput, ErrTimeout,
   ErrProvider, ErrCallback, ErrTypeError}

\* C22: no generateResponse or generateStreamingResponse call throws: a
\* call that fails returns an envelope with success = false, the one
\* generic message and a correlation id, which does not carry the message
\* of the underlying error.
C22_RequestsNeverThrow ==
  /\ last.outcome # "thrown"
  /\ (last.outcome = "failure" /\ last.error \in RequestErrors) =>
       LET envelope == createErrorResponse(last.error)
       IN  /\ envelope.success = FALSE
           /\ envelope.message = GenericErrorMessage
           /\ "errorId" \in DOMAIN envelope
           /\ envelope.message # last.error /\ envelope.errorId # last.error
           /\ \A i \in DOMAIN envelope.suggestions :
                envelope.suggestions[i] # last.error

\* C23: the chatbot turns ready only in the step in which a connectivity
\* probe of initialize() resolves; starting initialize() does not change
\* readiness, so a chatbot that was never ready stays not ready while the
\* probe is pending; and when client setup or the probe fails, the error is
\* recorded and the chatbot is left not ready.
C23_ReadyOnlyAfterProbe ==
  [][/\ (~initialized /\ initialized')
          => /\ probing > 0 /\ probing' = probing - 1
             /\ ~initializationError'
     /\ InitializeStart => UNCHANGED initialized
     /\ (InitializeSetupFails \/ ProbeFails)
          => ~initialized' /\ initializationError']_vars

\* a request was refused as not initialized while the probe of the first
\* initialize() was pending
C23_Witness ==
  /\ probing > 0
  /\ ~initialized /\ ~initializationError
  /\ rateLimitStore = EmptyMap
  /\ last.op = "generateResponse" /\ last.error = ErrNotInitialized

\* getConversationHistory(sessionId): the stored turn, or null
getConversationHistory(sessionId) ==
  IF sessionId \in DOMAIN conversationHistory
  THEN conversationHistory[sessionId] ELSE Absent

\* C24: the conversation store maps a session id to one turn;
\* clearConversationHistory(s) leaves no turn for s, so that
\* getConversationHistory(s) returns null, and leaves the turns of all
\* other sessions, the cache, the rate-limit windows and the metrics as they
\* were.
C24_ClearRemovesOneTurn ==
  [][\A s \in HistorySessions :
       ClearConversationHistory(s)
       => /\ getConversationHistory(s)' = Absent
          /\ \A other \in HistorySessions \ {s} :
               getConversationHistory(other)' = getConversationHistory(other)
          /\ UNCHANGED <<cache, cacheTimestamps, rateLimitStore, metrics>>]_vars

\* two sessions were answered by the model, so both had a turn stored, and
\* the turn of one of them has been cleared since
C24_Witness ==
  /\ metrics.successfulRequests = 2 /\ metrics.cacheMisses = 2
  /\ {"s1", "s2"} \subseteq DOMAIN rateLimitStore
  /\ DOMAIN conversationHistory = {"s2"}
  /\ DOMAIN cache # {}

\* the level the keyword lists assign to a text: emergency before serious
levelOf(text) ==
  IF \E j \in 1..Len(emergencyKeywords) : includes(toLowerCase(text), emergencyKeywords[j])
  THEN "emergency"
  ELSE IF \E j \in 1..Len(seriousSymptoms) : includes(toLowerCase(text), seriousSymptoms[j])
       THEN "serious"
       ELSE "normal"

\* the level whose instruction block a prompt carries; a prompt without a
\* block reads as one for a normal message
instructionLevel(prompt) ==
  IF prompt.urgencyInstruction = "none" THEN "normal" ELSE prompt.urgencyInstruction

\* C25: the urgency level of a request is that of its sanitized message
\* (emergency before serious before normal), and the request uses that one
\* level wherever it uses a level: in the prompt it sends to the model, in
\* the envelope it returns, in the cache entry and the conversation turn it
\* stores, and in the metrics it records.
C25_OneLevelPerRequest ==
  [][/\ \A r \in Slots :
          /\ (ModelFails(r) \/ ModelTimesOut(r)) => CountsDetection(req[r].urgencyLevel)
          /\ \A result \in ModelResults :
               ModelAnswers(r, result)
               => LET level == req[r].urgencyLevel
                  IN  /\ level = levelOf(req[r].sanitizedMessage)
                      /\ answerEnvelope(r, result).urgencyLevel = level
                      /\ req[r].cacheKey \in DOMAIN cache'
                           => cache'[req[r].cacheKey].urgencyLevel = level
                      /\ req[r].sessionId # NullSession
                           => conversationHistory'[req[r].sessionId].urgencyLevel = level
                      /\ CountsDetection(level)
     /\ \A q \in Requests :
          (/\ initialized
           /\ Validation[q[1]].isValid
           /\ last'.outcome \in {"pending", "success"}
           /\ IsGenerate(q))
          => LET level == levelOf(Validation[q[1]].sanitizedInput)
             IN  IF last'.outcome = "pending"
                 THEN instructionLevel(genPrompt(q[1], q[2], q[3])) = level
                 ELSE /\ genEnvelope(q[1], q[2], q[3]).urgencyLevel = level
                      /\ CountsDetection(level)]_vars

\* C26: whenever a generateResponse request classified emergency suspends
\* in a model call, the prompt it passed carries the emergency instruction
\* block, whatever its options and whether or not its session has a turn.
C26_EmergencyPromptEscalates ==
  [][\A q \in Requests :
       (/\ initialized
        /\ Validation[q[1]].isValid
        /\ Urgency[q[1]] = "emergency"
        /\ last'.outcome = "pending"
        /\ IsGenerate(q))
       => genPrompt(q[1], q[2], q[3]).urgencyInstruction = "emergency"]_vars

\* the concatenation of the first k texts of a sequence of texts
RECURSIVE concat(_, _)
concat(texts, k) == IF k = 0 THEN <<>> ELSE concat(texts, k - 1) \o texts[k]

\* C27: while a generateStreamingResponse request consumes its stream, a
\* callback has been invoked once per chunk emitted so far, in emission
\* order: the k-th invocation received the k-th chunk, chunkNumber k and the
\* concatenation of chunks 1..k.  When the stream ends the request returns
\* and is gone (no later invocation), and the message of its envelope is the
\* trimmed concatenation of all chunks, or the fallback text when the
\* concatenation is empty.
C27_CallbackPerChunkInOrder ==
  /\ [](\A r \in Slots :
          req[r].pc = "awaitStream" =>
            /\ req[r].chunkCount = Len(req[r].chunks)
            /\ req[r].fullResponse = concat(req[r].chunks, Len(req[r].chunks))
            /\ req[r].onChunk = "records" =>
                 /\ Len(req[r].delivered) = Len(req[r].chunks)
                 /\ \A k \in 1..Len(req[r].delivered) :
                      /\ req[r].delivered[k].chunk = req[r].chunks[k]
                      /\ req[r].delivered[k].chunkNumber = k
                      /\ req[r].delivered[k].fullResponse = concat(req[r].chunks, k))
  /\ [][\A r \in Slots :
          StreamEnds(r)
          => LET all == concat(req[r].chunks, Len(req[r].chunks))
             IN  /\ req'[r] = Idle
                 /\ last'.outcome = "success"
                 /\ streamEnvelope(r).message
                      = IF all = <<>> THEN trim(StreamFallbackText) ELSE trim(all)]_vars

\* a recording callback has been invoked for every chunk of a stream of
\* MaxStreamChunks chunks, among them an empty one and one of whitespace
C27_Witness ==
  \E r \in Slots :
    /\ req[r].pc = "awaitStream"
    /\ req[r].onChunk = "records"
    /\ Len(req[r].delivered) = MaxStreamChunks
    /\ \E i, j \in 1..MaxStreamChunks :
         req[r].chunks[i] = <<>> /\ req[r].chunks[j] = <<" ">>

\* CacheManager.cache?.size || 0: the class CacheManager has no property
\* "cache" (the Map is a constant of the module), so the optional chain
\* yields undefined
cacheSizeReported == 0

\* PurrPalChatbot.getMetrics(), without its timestamp
getMetrics ==
  Merge(metrics,
        [activeConversations |-> Cardinality(DOMAIN conversationHistory),
         cacheSize |-> cacheSizeReported,
         initialized |-> initialized])

\* C28: in every state getMetrics() reports the number of entries in the
\* cache as cacheSize, the number of sessions with a stored turn as
\* activeConversations, and the readiness flag as initialized.
C28_GetMetricsReportsSizes ==
  /\ getMetrics.cacheSize = Cardinality(DOMAIN cache)
  /\ getMetrics.activeConversations = Cardinality(DOMAIN conversationHistory)
  /\ getMetrics.initialized = initialized

\* C29: every envelope generateStreamingResponse returns, for a stream that
\* ended as for a failure, carries streaming = TRUE.
C29_StreamingEnvelopeIsMarked ==
  [][\A r \in Slots :
       /\ StreamEnds(r)
            => /\ "streaming" \in DOMAIN streamEnvelope(r)
               /\ streamEnvelope(r).streaming = TRUE
       /\ (last'.op = "generateStreamingResponse" /\ last'.outcome = "failure")
            => /\ "streaming" \in DOMAIN createErrorResponse(last'.error)
               /\ createErrorResponse(last'.error).streaming = TRUE]_vars

\* C30: the failure envelope of a generateResponse request rejected by the
\* rate limiter carries the resetTime the rate limiter computed.
C30_RejectionCarriesResetTime ==
  [][\A q \in RateRequests :
       (/\ initialized
        /\ ~rateCheck(q[2]).allowed
        /\ IsGenerate(q))
       => /\ "resetTime" \in DOMAIN genEnvelope(q[1], q[2], q[3])
          /\ genEnvelope(q[1], q[2], q[3]).resetTime = rateCheck(q[2]).resetTime]_vars

\* C31: a generateResponse call that is admitted and fails validation
\* returns an envelope with success = FALSE whose message states that the
\* input is invalid.  (Messages are whole texts here; the one that reads
\* 'Input tidak valid' is the message of the validation error.)
C31_InvalidInputIsNamed ==
  [][\A q \in RateRequests :
       (/\ initialized
        /\ rateCheck(q[2]).allowed
        /\ ~Validation[q[1]].isValid
        /\ IsGenerate(q))
       => /\ genEnvelope(q[1], q[2], q[3]).success = FALSE
          /\ genEnvelope(q[1], q[2], q[3]).message = ErrInvalidInput]_vars

\* C32: for every string whose trimmed length is less than 3 (the empty
\* string and short text padded with whitespace included), validateInput
\* returns isValid = FALSE and an error list that contains the 'too short'
\* message.
C32_ShortInputIsRejected ==
  (/\ last.op = "validateInput"
   /\ Len(trim(last.input.text)) < 3)
  => /\ ~last.validation.isValid
     /\ \E i \in DOMAIN last.validation.errors :
          last.validation.errors[i] = ErrTooShort

\* C33: after every set, the cache holds at most cacheSoftCap entries or no
\* entry older than the TTL; whatever the set removed was older than the
\* TTL, every entry that was within the TTL is still there with its value
\* and its timestamp, and the value map and the timestamp map have the same
\* keys.
C33_CleanupEvictsOnlyExpired ==
  [][\A key \in CacheKeys, result \in ModelResults \ {Malformed} :
       (/\ last'.op = "cacheSet"
        /\ key \in DOMAIN cacheTimestamps' /\ cacheTimestamps'[key] = now
        /\ CachePut(key, formatResponse(generatedTextOf(result), "normal", FALSE, 0)))
       => /\ \/ Cardinality(DOMAIN cache') <= cacheSoftCap
             \/ \A k \in DOMAIN cacheTimestamps' : now - cacheTimestamps'[k] <= ttlMs
          /\ \A k \in (DOMAIN cache) \ DOMAIN cache' : now - cacheTimestamps[k] > ttlMs
          /\ \A k \in (DOMAIN cacheTimestamps) \ {key} :
               now - cacheTimestamps[k] <= ttlMs
               => /\ k \in DOMAIN cache' /\ cache'[k] = cache[k]
                  /\ k \in DOMAIN cacheTimestamps'
                  /\ cacheTimestamps'[k] = cacheTimestamps[k]
          /\ DOMAIN cache' = DOMAIN cacheTimestamps']_vars

\* a set has pushed the cache over the soft cap, and its cleanup pass has
\* removed the expired entries and kept one stored earlier, within the TTL
C33_Witness ==
  /\ last.op = "cacheSet" /\ last.evicted
  /\ Cardinality(DOMAIN cache) < Prefilled
  /\ \E k \in DOMAIN cacheTimestamps :
       cacheTimestamps[k] < now /\ now - cacheTimestamps[k] <= ttlMs

\* C34: when the model call of a generateResponse request resolves to a
\* result without usable text, the request completes as a successful
\* generation of the fallback text: it returns a success envelope with that
\* text, records one successful request, stores the turn with that text, and
\* unless the message is an emergency stores the envelope in the cache, where
\* a lookup of the key finds it until TTL has passed.
C34_FallbackIsASuccess ==
  [][\A r \in Slots :
       (/\ req[r].pc = "awaitModel"
        /\ ModelAnswers(r, Malformed))
       => LET q == req[r]
          IN  /\ answerEnvelope(r, Malformed).success
              /\ answerEnvelope(r, Malformed).message = trim(FallbackText)
              /\ last'.outcome = "success"
              /\ metrics'.successfulRequests = metrics.successfulRequests + 1
              /\ metrics'.failedRequests = metrics.failedRequests
              /\ q.sessionId # NullSession
                   => TurnReplaced(q.sessionId, q.sanitizedMessage, FallbackText)
              /\ IF q.urgencyLevel = "emergency"
                 THEN UNCHANGED <<cache, cacheTimestamps>>
                 ELSE /\ q.cacheKey \in DOMAIN cache'
                      /\ cache'[q.cacheKey].message = trim(FallbackText)
                      /\ \A t \in LaterTimes :
                           CacheGet(cache', cacheTimestamps', q.cacheKey, t).value
                             = IF t - now <= ttlMs THEN cache'[q.cacheKey] ELSE Absent]_vars

\* the only model call so far resolved without text, and the request after
\* it was answered from the cache, which holds the fallback text
C34_Witness ==
  /\ last.op = "generateResponse" /\ last.outcome = "success"
  /\ calls = 2
  /\ metrics.successfulRequests = 2
  /\ metrics.cacheHits = 1 /\ metrics.cacheMisses = 1
  /\ \E key \in DOMAIN cache : cache[key].message = trim(FallbackText)
  /\ \A key \in DOMAIN cache : cache[key].message = trim(FallbackText)

\* C35: an admitted, valid generateResponse request made without
\* bypassCache, for whose key the cache holds an entry that has not
\* expired, returns that entry's payload marked cached = TRUE, suspends in
\* no model call and leaves the cache as it is, whatever its session id and
\* its useContext option.
C35_CacheHitIsSessionIndependent ==
  [][\A q \in Requests :
       (/\ initialized
        /\ ~q[3].bypassCache
        /\ Validation[q[1]].isValid
        /\ CacheKey[q[1]] \in DOMAIN cacheTimestamps
        /\ ~Expired(now, cacheTimestamps[CacheKey[q[1]]])
        /\ rateCheck(q[2]).allowed
        /\ IsGenerate(q))
       => LET entry == cache[CacheKey[q[1]]]
              envelope == genEnvelope(q[1], q[2], q[3])
          IN  /\ last'.outcome = "success"
              /\ envelope.cached = TRUE
              /\ \A field \in (DOMAIN entry) \ {"cached", "responseTimeMs"} :
                   field \in DOMAIN envelope /\ envelope[field] = entry[field]
              /\ UNCHANGED <<req, cache, cacheTimestamps>>]_vars

\* two requests were made under different identifiers; the model answered
\* the first, and the second was answered from the entry the first stored
C35_Witness ==
  /\ last.op = "generateResponse" /\ last.outcome = "success"
  /\ calls = 2
  /\ metrics.successfulRequests = 2
  /\ metrics.cacheHits = 1 /\ metrics.cacheMisses = 1
  /\ \A id \in {"anonymous", "s1"} :
       id \in DOMAIN rateLimitStore /\ Len(rateLimitStore[id]) = 1
  /\ DOMAIN cache # {}

\* C36: an admitted, valid generateResponse request made with bypassCache
\* suspends in a model call whether or not the cache holds an unexpired
\* entry for its key; a request that went to the model is recorded, when it
\* completes, as a cache miss; and when the model answers a non-emergency
\* request, the entry under its key is the new envelope, stored at this
\* moment.
C36_BypassInvokesAndReplaces ==
  [][/\ \A q \in Requests :
          (/\ initialized
           /\ calls' = calls + 1
           /\ q[3].bypassCache
           /\ Validation[q[1]].isValid
           /\ rateCheck(q[2]).allowed
           /\ IsGenerate(q))
          => /\ last'.outcome = "pending"
             /\ \E r \in Slots : req[r] = Idle /\ req'[r].pc = "awaitModel"
     /\ \A r \in Slots :
          (/\ req[r].pc = "awaitModel"
           /\ req'[r].pc # "awaitModel"
           /\ ModelFails(r) \/ ModelTimesOut(r)
                \/ \E result \in ModelResults : ModelAnswers(r, result))
          => /\ metrics'.cacheMisses = metrics.cacheMisses + 1
             /\ metrics'.cacheHits = metrics.cacheHits
     /\ \A r \in Slots, result \in ModelResults :
          (/\ req[r].pc = "awaitModel"
           /\ req'[r] = Idle
           /\ req[r].urgencyLevel # "emergency"
           /\ ModelAnswers(r, result))
          => /\ cache'[req[r].cacheKey]
                  = Merge(answerEnvelope(r, result), [urgencyLevel |-> req[r].urgencyLevel])
             /\ cacheTimestamps'[req[r].cacheKey] = now
             /\ ~Expired(now + ttlMs, cacheTimestamps'[req[r].cacheKey])]_vars

\* a request has just suspended in a model call although the cache held,
\* when it started, an unexpired entry for its key stored at an earlier
\* minute
C36_Witness ==
  /\ last.op = "generateResponse" /\ last.outcome = "pending"
  /\ \E r \in Slots :
       /\ req[r].pc = "awaitModel"
       /\ req[r].startTime = now
       /\ req[r].cacheKey \in DOMAIN cacheTimestamps
       /\ cacheTimestamps[req[r].cacheKey] < now
       /\ ~Expired(now, cacheTimestamps[req[r].cacheKey])
       /\ \A other \in Slots \ {r} : req[other] = Idle

\* C37: the rate-limit check of a request changes the stored timestamps of
\* its own identifier only (the session id, or 'anonymous' when there is
\* none): every other identifier keeps its timestamps, and with them the
\* decision of any check made for it now or later.  A request without a
\* session id is decided by the accepted checks of all such requests.
C37_WindowsAreIndependent ==
  [][\A q \in RateRequests :
       (/\ initialized
        /\ calls' = calls + 1
        /\ IsGenerate(q))
       => LET own == IF q[2] = NullSession THEN "anonymous" ELSE q[2]
          IN  /\ \A other \in ({"anonymous"} \cup (SessionIds \ {NullSession})) \ {own} :
                   /\ storedRequests(other)' = storedRequests(other)
                   /\ \A t \in LaterTimes :
                        checkRateLimit(rateLimitStore', other, t).allowed
                          = checkRateLimit(rateLimitStore, other, t).allowed
              /\ q[2] = NullSession
                   => (rateCheck(q[2]).allowed
                         <=> recentAccepted("anonymous") < maxRequests)]_vars

\* the requests without a session id have used up their window and the last
\* of them was rejected; a request of session s1 has just been admitted
C37_Witness ==
  /\ last.op = "generateResponse" /\ last.error = ""
  /\ calls = maxRequests + 2
  /\ metrics.failedRequests = 0
  /\ Len(admitted["anonymous"]) = maxRequests
  /\ admitted["s1"] = <<now>>
  /\ ~checkRateLimit(rateLimitStore, "anonymous", now).allowed
  /\ checkRateLimit(rateLimitStore, "s1", now).allowed

\* C38: once shutdown() has returned, the cache and the conversation store
\* stay empty until a request started after a new initialize() completes; a
\* request that was suspended in its model call when shutdown() ran writes
\* to neither.  (A chatbot that is not ready and has no initialization error
\* recorded was shut down after its last initialize() completed, and a
\* request still waiting for the model then started before that shutdown.)
C38_StaleRequestWritesNothing ==
  [][\A r \in Slots, result \in ModelResults :
       (/\ req[r].pc = "awaitModel"
        /\ ~initialized /\ ~initializationError
        /\ ModelAnswers(r, result))
       => /\ cache' = EmptyMap /\ cacheTimestamps' = EmptyMap
          /\ conversationHistory' = EmptyMap]_vars

\* C39: after shutdown() has returned the chatbot stays not ready until
\* initialize() is called again: when the probe of an initialize() call
\* that was already waiting while shutdown() ran settles, in the step after
\* the shutdown, the chatbot is still not ready.
C39_ShutdownOutlastsPendingInitialize ==
  [][(/\ last.op = "shutdown"
      /\ probing > 0
      /\ probing' < probing)
     => ~initialized']_vars

\* C40: with several requests of one session or one cache key waiting for
\* the model at once, every update of a shared store happens in one step:
\* the value map and the timestamp map of the cache always have the same
\* keys, and a request whose model call resolves leaves, in that step, its
\* own turn under its session and (unless it is an emergency) its own
\* envelope under its key, stored at this moment, and leaves the other
\* waiting requests as they are; so the writes of the request that resolves
\* last are the ones that remain.
C40_LastCompletedRequestWins ==
  /\ [](DOMAIN cache = DOMAIN cacheTimestamps)
  /\ [][\A r \in Slots, result \in ModelResults :
          (/\ req[r].pc = "awaitModel"
           /\ req'[r] = Idle
           /\ last'.outcome = "success"
           /\ ModelAnswers(r, result))
          => /\ req[r].sessionId # NullSession
                  => conversationHistory'[req[r].sessionId]
                       = [lastMessage |-> req[r].sanitizedMessage,
                          lastResponse |-> generatedTextOf(result),
                          urgencyLevel |-> req[r].urgencyLevel]
             /\ req[r].urgencyLevel # "emergency"
                  => /\ cache'[req[r].cacheKey]
                          = Merge(answerEnvelope(r, result),
                                  [urgencyLevel |-> req[r].urgencyLevel])
                     /\ cacheTimestamps'[req[r].cacheKey] = now
             /\ \A other \in Slots \ {r} : req'[other] = req[other]]_vars

\* session s1 asked the same serious question twice; both requests waited
\* for the model at the same time (one for two minutes, the other for one)
\* and both were answered; the cache entry is that of the request answered
\* just now, the one that waited two minutes
C40_Witness ==
  /\ last.op = "generateResponse" /\ last.outcome = "success"
  /\ calls = 2
  /\ metrics.successfulRequests = 2 /\ metrics.cacheMisses = 2
  /\ metrics.seriousConditionDetections = 2
  /\ metrics.averageResponseTime = Fin(3 * MinuteMs, 2)
  /\ DOMAIN rateLimitStore = {"s1"}
  /\ "s1" \in DOMAIN conversationHistory
  /\ \E key \in DOMAIN cache :
       /\ cacheTimestamps[key] = now
       /\ cache[key].responseTimeMs = 2 * MinuteMs

====
